---- MODULE Spec2Model ----
(***************************************************************************)
(* libmediasoupclient: the synthesized remote description (Sdp::RemoteSdp  *)
(* and its media sections) and the Send / Recv handlers that drive the     *)
(* transport engine (PeerConnection) through offer/answer rounds.          *)
(*                                                                         *)
(* One handler is modelled per behaviour; Init chooses whether it is a     *)
(* SendHandler or a RecvHandler.  Every public handler method is one       *)
(* action; the engine call at which the method fails (if any) is an input  *)
(* of the action.  The engine is an external collaborator: a call to it    *)
(* either succeeds or throws, and what it does to transceivers is taken    *)
(* from the way Handler.cpp uses the results.                              *)
(***************************************************************************)
EXTENDS Integers, Sequences, FiniteSets, TLC

VARIABLES
    handlerKind,                 \* "send" (SendHandler) or "recv" (RecvHandler)
    remoteSdp,                   \* Handler::remoteSdp, the Sdp::RemoteSdp object
    pc,                          \* Handler::pc, the engine as seen by the handler
    transportReady,              \* Handler::transportReady
    mapMidTransceiver,           \* Handler::mapMidTransceiver (localId -> transceiver)
    hasDataChannelMediaSection,  \* Handler::hasDataChannelMediaSection
    nextSendSctpStreamId,        \* Handler::nextSendSctpStreamId
    sendingRtpParameters,        \* SendHandler::sendingRtpParametersByKind[kind of the tracks]
    sendingRemoteRtpParameters,  \* SendHandler::sendingRemoteRtpParametersByKind[that kind]
    limits,                      \* the bounds of the behaviour; never changes
    allocated,                   \* history: number of stream ids handed out so far
    emitted,                     \* history: session-versions of the texts GetSdp returned
    last                         \* history: the last method called and its outcome

vars == <<handlerKind, remoteSdp, pc, transportReady, mapMidTransceiver,
          hasDataChannelMediaSection, nextSendSctpStreamId, sendingRtpParameters,
          sendingRemoteRtpParameters, limits, allocated, emitted, last>>

(***************************************************************************)
(* Bounds of the model.                                                    *)
(***************************************************************************)
MaxSections == 2        \* sections in the document
MaxVersion == 3         \* texts written by GetSdp
MaxTransceivers == 2    \* transceivers a SendHandler adds
MaxDataChannels == 1    \* data channels opened (Spec)
MaxQueryVersion == 1    \* texts written before the queries of SpecQueries
MaxWrapExtra == 2       \* data channels opened past the wrap-around (SpecSctp)
MaxSends == 1           \* transceivers added (SpecSend)
MaxRidExtra == 1        \* encodings given past the 256th (SpecSend)
MaxFingerprints == 3    \* entries of dtlsParameters["fingerprints"] (SpecInitialize)
MaxSlotSections == 3    \* sections in the document (SpecSlots)
MaxSlotVersion == 4     \* texts written by GetSdp (SpecSlots)
MaxSlotTransceivers == 3 \* transceivers a SendHandler adds (SpecSlots)
MaxExt == 2             \* header extensions on either side (SpecExt)

\* The bounds a behaviour keeps to.
Limits == [sections |-> MaxSections, versions |-> MaxVersion,
           transceivers |-> MaxTransceivers]

SlotLimits == [sections |-> MaxSlotSections, versions |-> MaxSlotVersion,
               transceivers |-> MaxSlotTransceivers]

(***************************************************************************)
(* Program constants.                                                      *)
(***************************************************************************)
SctpNumStreamsMis == 1024
ClosedPort == 0
OpenPort == 7

UInt8 == 256

Kinds == {"audio", "video"}

\* The kinds of the tracks given to Send and of the consumers given to Receive,
\* and the numbers of encodings given to Send.
TrackKinds == {"video"}
EncodingCounts == {0, 1}

\* A webrtc::RtpEncodingParameters as the caller fills it: active, rid ("" when
\* empty) and network_priority always, an optional member only when it holds
\* a value.
DefaultEncoding == [active |-> TRUE, rid |-> "", network_priority |-> "low"]

EncodingsOfLength(n) == [i \in 1..n |-> DefaultEncoding]

\* Encodings with the optional members set, as a caller may give them.
CappedEncoding ==
    [active |-> FALSE, rid |-> "q", network_priority |-> "high",
     max_bitrate_bps |-> 500000]

ScaledEncoding ==
    [active |-> TRUE, rid |-> "", network_priority |-> "low",
     max_framerate |-> 30, scale_resolution_down_by |-> 2]

\* The vectors of encodings given to Send in SpecSend.
EncodingLists ==
    { <<>>,
      <<DefaultEncoding>>,
      <<CappedEncoding>>,
      <<ScaledEncoding>>,
      <<CappedEncoding, DefaultEncoding>>,
      <<ScaledEncoding, CappedEncoding, DefaultEncoding>>,
      <<DefaultEncoding, ScaledEncoding, CappedEncoding, CappedEncoding>>,
      EncodingsOfLength(UInt8 + MaxRidExtra) }

\* A mimeType is the sequence of its characters.
VideoVP8 == <<"v", "i", "d", "e", "o", "/", "V", "P", "8">>

AudioOpus == <<"a", "u", "d", "i", "o", "/", "o", "p", "u", "s">>

\* The mimeType of the first codec of the sending RTP parameters.
MimeTypes ==
    { VideoVP8,
      <<"V", "I", "D", "E", "O", "/", "v", "p", "8">>,
      <<"v", "i", "d", "e", "o", "/", "H", "2", "6", "4">>,
      <<"v", "i", "d", "e", "o", "/", "H", "2", "6", "5">>,
      <<"v", "i", "d", "e", "o", "/", "V", "P", "9">>,
      <<"v", "i", "d", "e", "o", "/", "V", "P", "8", "0">> }
DtlsRoles == {"auto", "client", "server"}

\* The ICE parameter sets the signaling layer may supply.
\* iceLite is the value of the "iceLite" key, or "absent" when there is no such key.
IceParameterSets ==
    { [usernameFragment |-> "u1", password |-> "p1", iceLite |-> "true"],
      [usernameFragment |-> "u2", password |-> "p2", iceLite |-> "absent"] }

\* ICE parameters whose "iceLite" key holds false.
IceNotLite == [usernameFragment |-> "u3", password |-> "p3", iceLite |-> "false"]

\* The entries of dtlsParameters["fingerprints"] and the lists of them the
\* signaling layer may supply; DefaultFingerprints where the list plays no part.
Fingerprints ==
    { [algorithm |-> "sha-1", value |-> "A1"],
      [algorithm |-> "sha-256", value |-> "B2"],
      [algorithm |-> "sha-512", value |-> "C3"] }

FingerprintLists ==
    UNION { [1..n -> Fingerprints] : n \in 1..MaxFingerprints }

DefaultFingerprints == <<[algorithm |-> "sha-256", value |-> "B2"]>>

DtlsParameters(role, fingerprints) == [role |-> role, fingerprints |-> fingerprints]

\* The entries of answerRtpParameters["headerExtensions"] (uri and id) and of
\* the "ext" of the engine's offer (uri and value), and the lists of them.
HeaderExtensions ==
    { [uri |-> "urn:mid", id |-> 1],
      [uri |-> "urn:abs-send-time", id |-> 4],
      [uri |-> "urn:video-orientation", id |-> 11] }

LocalExts ==
    { [uri |-> "urn:mid", value |-> 2],
      [uri |-> "urn:abs-send-time", value |-> 3],
      [uri |-> "URN:VIDEO-ORIENTATION", value |-> 5] }

HeaderExtensionLists == UNION { [1..n -> HeaderExtensions] : n \in 0..MaxExt }

LocalExtLists == UNION { [1..n -> LocalExts] : n \in 0..MaxExt }

\* The lists where the header extensions play no part.
DefaultHeaderExtensions ==
    <<[uri |-> "urn:mid", id |-> 1], [uri |-> "urn:abs-send-time", id |-> 4]>>

DefaultLocalExts == <<[uri |-> "urn:mid", value |-> 2]>>

\* A local identifier no Send or Receive ever returns.
UnknownId == "x"

\* The "mid" a caller of Receive may put in rtpParameters: no such key, a
\* string (empty or not) or a value of another JSON type, here the number 7.
MidAbsent == [type |-> "absent", value |-> ""]
MidString(value) == [type |-> "string", value |-> value]
MidNumber == [type |-> "number", value |-> "7"]
CallerMids == {MidAbsent, MidString(""), MidNumber, MidString("a")}

DecDigits == <<"0", "1", "2", "3", "4", "5", "6", "7", "8", "9">>

\* std::to_string on a non-negative integer.
RECURSIVE to_string(_)
to_string(n) ==
    IF n < 10 THEN DecDigits[n + 1]
    ELSE to_string(n \div 10) \o DecDigits[(n % 10) + 1]

(***************************************************************************)
(* Media sections (MediaSection.cpp).  A section is the mediaObject of a   *)
(* MediaSection; opt is the set of optional attributes it carries.         *)
(***************************************************************************)
StrippedByDisable == {"ext", "ssrcs", "ssrcGroups", "simulcast", "rids"}
StrippedByClose == StrippedByDisable \cup {"extmapAllowMixed"}

IsClosed(s) == s.port = ClosedPort

SetIceParameters(s, iceParameters) ==
    [s EXCEPT !.iceUfrag = iceParameters.usernameFragment,
              !.icePwd = iceParameters.password]

\* mediaObject.erase("ext") on a section whose ext list is kept.
EraseExt(s) == IF "ext" \in DOMAIN s THEN [s EXCEPT !.ext = <<>>] ELSE s

\* A Disable that gives the section its port back.
DisableSection_PortRestored(s) ==
    EraseExt([s EXCEPT !.direction = "inactive", !.port = OpenPort,
                       !.opt = @ \ StrippedByDisable])

DisableSection(s) ==
    EraseExt([s EXCEPT !.direction = "inactive", !.opt = @ \ StrippedByDisable])

CloseSection(s) ==
    EraseExt([s EXCEPT !.direction = "inactive", !.port = ClosedPort,
                       !.opt = @ \ StrippedByClose])

\* The setup of an answer with active and passive exchanged.
AnswerSetup_Exchanged(role, old) ==
    IF role = "client" THEN "passive"
    ELSE IF role = "server" THEN "active"
    ELSE IF role = "auto" THEN "actpass"
    ELSE old

\* The setup an AnswerMediaSection takes for a role; old is what it had.
AnswerSetup(role, old) ==
    IF role = "client" THEN "active"
    ELSE IF role = "server" THEN "passive"
    ELSE IF role = "auto" THEN "actpass"
    ELSE old

\* A header-extension loop that takes every extension of the answer side.
AnswerExt_OfferIgnored(headerExtensions, localExts) ==
    [i \in 1..Len(headerExtensions) |->
        [uri |-> headerExtensions[i].uri, value |-> headerExtensions[i].id]]

\* "Don't add a header extension if not present in the offer.": the loop over
\* answerRtpParameters["headerExtensions"], with its find_if over the offer's.
RECURSIVE AnswerExt(_, _)
AnswerExt(headerExtensions, localExts) ==
    IF headerExtensions = <<>> THEN <<>>
    ELSE LET ext == Head(headerExtensions)
             found == \E j \in 1..Len(localExts) : localExts[j].uri = ext.uri
         IN (IF found THEN <<[uri |-> ext.uri, value |-> ext.id]>> ELSE <<>>)
            \o AnswerExt(Tail(headerExtensions), localExts)

\* offer: the engine's media entry [mid, type, extmapAllowMixed, simulcast, ext].
\* The ext list is kept for audio and video answers only.
AnswerMediaSection(iceParameters, dtlsRole, offer, answerRtpParameters) ==
    LET av == offer.type \in Kinds IN
    [ mid |-> offer.mid,
      ext |-> IF av THEN AnswerExt(answerRtpParameters.headerExtensions, offer.ext)
              ELSE <<>>,
      type |-> offer.type,
      variant |-> "answer",
      port |-> OpenPort,
      setup |-> AnswerSetup(dtlsRole, "unset"),
      direction |-> IF av THEN "recvonly" ELSE "none",
      iceUfrag |-> iceParameters.usernameFragment,
      icePwd |-> iceParameters.password,
      opt |-> IF av
              THEN {"ext"}
                   \cup (IF offer.extmapAllowMixed THEN {"extmapAllowMixed"} ELSE {})
                   \cup (IF offer.simulcast THEN {"simulcast", "rids"} ELSE {})
              ELSE {} ]

OfferMediaSection(iceParameters, mid, kind) ==
    LET av == kind \in Kinds IN
    [ mid |-> mid,
      type |-> kind,
      variant |-> "offer",
      port |-> OpenPort,
      setup |-> "actpass",
      direction |-> IF av THEN "sendonly" ELSE "none",
      iceUfrag |-> iceParameters.usernameFragment,
      icePwd |-> iceParameters.password,
      opt |-> IF av THEN {"ext", "ssrcs", "ssrcGroups"} ELSE {} ]

\* A SetDtlsRole that follows the role on offers as it does on answers.
SetDtlsRole_OfferFollowsRole(s, role) ==
    [s EXCEPT !.setup = AnswerSetup(role, @)]

SetDtlsRole(s, role) ==
    IF s.variant = "answer"
    THEN [s EXCEPT !.setup = AnswerSetup(role, @)]
    ELSE [s EXCEPT !.setup = "actpass"]

(***************************************************************************)
(* Sdp::RemoteSdp (RemoteSdp.cpp).  Its operations are operators from a    *)
(* document to the document after the call.  Indices are 0-based as in     *)
(* the code; TLA+ sequences are 1-based, hence the "+ 1".                  *)
(***************************************************************************)
EmptyMap == [m \in {} |-> 0]

\* std::map::operator[] on midToIndex: a missing key is inserted with value 0.
MapTouch(map, key) == IF key \in DOMAIN map THEN map ELSE (key :> 0) @@ map

MapSet(map, key, value) == (key :> value) @@ map

MapErase(map, key) == [k \in DOMAIN map \ {key} |-> map[k]]

HasIceLite(iceParameters) == iceParameters.iceLite # "absent"

\* A constructor that takes the first of the fingerprints.
SessionFingerprint_First(fingerprints) ==
    [type |-> fingerprints[1].algorithm, hash |-> fingerprints[1].value]

\* "NOTE: We take the latest fingerprint."
SessionFingerprint(fingerprints) ==
    LET numFingerprints == Len(fingerprints) IN
    [type |-> fingerprints[numFingerprints].algorithm,
     hash |-> fingerprints[numFingerprints].value]

\* dtlsRole and fingerprints are the members of this->dtlsParameters.
RemoteSdpNew(iceParameters, dtlsParameters) ==
    [ iceParameters |-> iceParameters,
      dtlsRole |-> dtlsParameters.role,
      fingerprints |-> dtlsParameters.fingerprints,
      icelite |-> HasIceLite(iceParameters),
      fingerprint |-> SessionFingerprint(dtlsParameters.fingerprints),
      sessionVersion |-> 0,
      mediaSections |-> <<>>,
      media |-> <<>>,
      midToIndex |-> EmptyMap,
      firstMid |-> "",
      bundleMids |-> <<>> ]

\* A std::string built from mids and " ": the sequence of its pieces.  An empty
\* mid contributes no piece, so that empty() is <<>>.
StrOf(mid) == IF mid = "" THEN <<>> ELSE <<mid>>

\* The loop of RegenerateBundleMids over the remaining sections; mids is the
\* text built so far.
RECURSIVE BundleMidsOf(_, _)
BundleMidsOf(sections, mids) ==
    IF sections = <<>> THEN mids
    ELSE BundleMidsOf(Tail(sections),
                      IF IsClosed(Head(sections)) THEN mids
                      ELSE IF mids = <<>> THEN StrOf(Head(sections).mid)
                           ELSE mids \o <<" ">> \o StrOf(Head(sections).mid))

RegenerateBundleMids(sdp) ==
    [sdp EXCEPT !.bundleMids = BundleMidsOf(sdp.mediaSections, <<>>)]

\* UpdateIceParameters that passes over the sections that are closed.
UpdateIceParameters_ClosedSkipped(sdp, iceParameters) ==
    LET updated == [i \in 1..Len(sdp.mediaSections) |->
                       IF IsClosed(sdp.mediaSections[i]) THEN sdp.mediaSections[i]
                       ELSE SetIceParameters(sdp.mediaSections[i], iceParameters)]
    IN [sdp EXCEPT !.iceParameters = iceParameters,
                   !.icelite = IF HasIceLite(iceParameters) THEN TRUE ELSE @,
                   !.mediaSections = updated,
                   !.media = [i \in 1..Len(sdp.media) |->
                                 IF i <= Len(updated) THEN updated[i] ELSE sdp.media[i]]]

UpdateIceParameters(sdp, iceParameters) ==
    LET updated == [i \in 1..Len(sdp.mediaSections) |->
                       SetIceParameters(sdp.mediaSections[i], iceParameters)]
    IN [sdp EXCEPT !.iceParameters = iceParameters,
                   !.icelite = IF HasIceLite(iceParameters) THEN TRUE ELSE @,
                   !.mediaSections = updated,
                   !.media = [i \in 1..Len(sdp.media) |->
                                 IF i <= Len(updated) THEN updated[i] ELSE sdp.media[i]]]

\* UpdateDtlsRole without "Update SDP media section".
UpdateDtlsRole_MediaNotUpdated(sdp, role) ==
    LET updated == [i \in 1..Len(sdp.mediaSections) |->
                       SetDtlsRole(sdp.mediaSections[i], role)]
    IN [sdp EXCEPT !.dtlsRole = role,
                   !.icelite = IF HasIceLite(sdp.iceParameters) THEN TRUE ELSE @,
                   !.mediaSections = updated]

UpdateDtlsRole(sdp, role) ==
    LET updated == [i \in 1..Len(sdp.mediaSections) |->
                       SetDtlsRole(sdp.mediaSections[i], role)]
    IN [sdp EXCEPT !.dtlsRole = role,
                   !.icelite = IF HasIceLite(sdp.iceParameters) THEN TRUE ELSE @,
                   !.mediaSections = updated,
                   !.media = [i \in 1..Len(sdp.media) |->
                                 IF i <= Len(updated) THEN updated[i] ELSE sdp.media[i]]]

\* GetNextMediaSectionIdx that never finds a closed section.
GetNextMediaSectionIdx_NoReuse(sdp) ==
    [idx |-> Len(sdp.mediaSections), reuseMid |-> ""]

\* The scan of GetNextMediaSectionIdx from 0-based index idx on.
RECURSIVE ScanClosed(_, _)
ScanClosed(sections, idx) ==
    IF idx >= Len(sections) THEN [idx |-> Len(sections), reuseMid |-> ""]
    ELSE IF IsClosed(sections[idx + 1])
         THEN [idx |-> idx, reuseMid |-> sections[idx + 1].mid]
         ELSE ScanClosed(sections, idx + 1)

GetNextMediaSectionIdx(sdp) == ScanClosed(sdp.mediaSections, 0)

AddMediaSection(sdp, newMediaSection) ==
    LET sections == Append(sdp.mediaSections, newMediaSection) IN
    RegenerateBundleMids(
        [sdp EXCEPT !.firstMid = IF @ = "" THEN newMediaSection.mid ELSE @,
                    !.mediaSections = sections,
                    !.midToIndex = MapSet(@, newMediaSection.mid, Len(sections) - 1),
                    !.media = Append(@, newMediaSection)])

\* A ReplaceMediaSection that leaves the old mid in the map.
ReplaceMediaSection_OldMidKept(sdp, newMediaSection, reuseMid) ==
    IF reuseMid # ""
    THEN LET touched == MapTouch(sdp.midToIndex, reuseMid)
             idx == touched[reuseMid]
         IN RegenerateBundleMids(
                [sdp EXCEPT !.mediaSections[idx + 1] = newMediaSection,
                            !.midToIndex = MapSet(touched, newMediaSection.mid, idx),
                            !.media[idx + 1] = newMediaSection])
    ELSE LET touched == MapTouch(sdp.midToIndex, newMediaSection.mid)
             idx == touched[newMediaSection.mid]
         IN [sdp EXCEPT !.mediaSections[idx + 1] = newMediaSection,
                        !.midToIndex = touched,
                        !.media[Len(sdp.mediaSections)] = newMediaSection]

ReplaceMediaSection(sdp, newMediaSection, reuseMid) ==
    IF reuseMid # ""
    THEN LET touched == MapTouch(sdp.midToIndex, reuseMid)
             idx == touched[reuseMid]
             oldMediaSection == sdp.mediaSections[idx + 1]
         IN RegenerateBundleMids(
                [sdp EXCEPT !.mediaSections[idx + 1] = newMediaSection,
                            !.midToIndex = MapSet(MapErase(touched, oldMediaSection.mid),
                                                  newMediaSection.mid, idx),
                            !.media[idx + 1] = newMediaSection])
    ELSE LET touched == MapTouch(sdp.midToIndex, newMediaSection.mid)
             idx == touched[newMediaSection.mid]
         IN [sdp EXCEPT !.mediaSections[idx + 1] = newMediaSection,
                        !.midToIndex = touched,
                        !.media[Len(sdp.mediaSections)] = newMediaSection]

CreateAnswer(sdp, offerMediaObject, reuseMid, answerRtpParameters) ==
    LET mediaSection == AnswerMediaSection(sdp.iceParameters, sdp.dtlsRole,
                                           offerMediaObject, answerRtpParameters)
    IN IF reuseMid # ""
       THEN ReplaceMediaSection(sdp, mediaSection, reuseMid)
       ELSE AddMediaSection(sdp, mediaSection)

SendSctpAssociation(sdp, offerMediaObject) ==
    AddMediaSection(sdp, AnswerMediaSection(sdp.iceParameters, sdp.dtlsRole,
                                            offerMediaObject,
                                            [headerExtensions |-> <<>>]))

RecvSctpAssociation(sdp) ==
    AddMediaSection(sdp, OfferMediaSection(sdp.iceParameters, "datachannel", "application"))

CreateOffer(sdp, mid, kind) ==
    AddMediaSection(sdp, OfferMediaSection(sdp.iceParameters, mid, kind))

DisableMediaSection(sdp, mid) ==
    LET touched == MapTouch(sdp.midToIndex, mid)
        idx == touched[mid]
    IN [sdp EXCEPT !.midToIndex = touched,
                   !.mediaSections[idx + 1] = DisableSection(@)]

\* CloseMediaSection without its final RegenerateBundleMids.
CloseMediaSection_NoRegenerate(sdp, mid) ==
    LET touched == MapTouch(sdp.midToIndex, mid)
        idx == touched[mid]
        mediaSection == IF mid = sdp.firstMid
                        THEN DisableSection(sdp.mediaSections[idx + 1])
                        ELSE CloseSection(sdp.mediaSections[idx + 1])
    IN [sdp EXCEPT !.midToIndex = touched,
                   !.mediaSections[idx + 1] = mediaSection,
                   !.media[idx + 1] = mediaSection]

CloseMediaSection(sdp, mid) ==
    LET touched == MapTouch(sdp.midToIndex, mid)
        idx == touched[mid]
        mediaSection == IF mid = sdp.firstMid
                        THEN DisableSection(sdp.mediaSections[idx + 1])
                        ELSE CloseSection(sdp.mediaSections[idx + 1])
    IN RegenerateBundleMids(
           [sdp EXCEPT !.midToIndex = touched,
                       !.mediaSections[idx + 1] = mediaSection,
                       !.media[idx + 1] = mediaSection])

\* GetSdp that writes the text without increasing the version.
GetSdp_SameVersion(sdp) == sdp

\* GetSdp: the document after the call; the text written carries its sessionVersion.
\* The version is a uint32_t: it would wrap after 2^32 - 1 calls, which is beyond
\* the integers of the model checker and beyond MaxVersion.
GetSdp(sdp) ==
    [sdp EXCEPT !.sessionVersion = @ + 1]

(***************************************************************************)
(* The engine (PeerConnection) as Handler.cpp uses it.  A transceiver is   *)
(* [mid, direction, hasTrack, kind, encodings, ext]; mid "" means mid()   *)
(* has no value; encodings is the active flag of each of the sender's      *)
(* encodings, ext the header extensions the engine offers for it.          *)
(* The engine names the m= sections it creates "0", "1", ... .  A handler  *)
(* keeps a transceiver as its position in pc.transceivers.                 *)
(***************************************************************************)
PeerConnectionNew == [transceivers |-> <<>>, nextMid |-> 0]

NoTransceiver == 0

\* The transceivers a RecvHandler's engine knows after it accepted a remote
\* offer with these sections: one more for each audio/video mid it had none for.
RECURSIVE TransceiversFor(_, _)
TransceiversFor(transceivers, sections) ==
    IF sections = <<>> THEN transceivers
    ELSE LET s == Head(sections)
             known == \E i \in 1..Len(transceivers) : transceivers[i].mid = s.mid
         IN TransceiversFor(
                IF s.type \in Kinds /\ ~known
                THEN Append(transceivers,
                            [mid |-> s.mid, direction |-> "recvonly",
                             hasTrack |-> FALSE, kind |-> s.type,
                             encodings |-> <<>>, ext |-> <<>>])
                ELSE transceivers,
                Tail(sections))

\* find_if over GetTransceivers(): the first transceiver whose mid is localId.
FindTransceiver(transceivers, localId) ==
    IF \E i \in 1..Len(transceivers) : transceivers[i].mid = localId
    THEN CHOOSE i \in 1..Len(transceivers) :
             /\ transceivers[i].mid = localId
             /\ \A j \in 1..(i - 1) : transceivers[j].mid # localId
    ELSE NoTransceiver

(***************************************************************************)
(* What a method call left behind for the caller to see.  reported is the  *)
(* set of engine calls that reported a failure during the method; arg is   *)
(* the argument the call was made with, for the methods that take one      *)
(* besides localId.                                                        *)
(***************************************************************************)
\* A JSON object without keys; a null pointer to one is treated alike.
EmptyJson == [k \in {} |-> ""]

\* The ways a method ends in an exception that no engine call reported:
\* the missing track, the unknown localId, the offer without application
\* section, the transceiver without mid and the transceiver not found.
OwnChecks == {"track", "lookup", "application", "mid", "transceiver"}

Outcome(op, failAt, calls, localId, streamId) ==
    [ op |-> op,
      result |-> IF failAt = "none" THEN "ok"
                 ELSE IF failAt = "track" THEN "typeError" ELSE "error",
      failAt |-> failAt,
      calls |-> calls,
      reported |-> IF failAt \in OwnChecks \cup {"none"} THEN {} ELSE {failAt},
      arg |-> "",
      codecOptions |-> EmptyJson,
      localId |-> localId,
      streamId |-> streamId ]

\* The streamId of an outcome that allocated none: not a stream id.
NoStream == SctpNumStreamsMis

\* The engine calls a method makes up to (and including) the one that fails.
RECURSIVE CallsUpTo(_, _)
CallsUpTo(steps, failAt) ==
    IF steps = <<>> THEN <<>>
    ELSE IF Head(steps) = failAt THEN <<Head(steps)>>
         ELSE <<Head(steps)>> \o CallsUpTo(Tail(steps), failAt)

\* TRUE iff step comes before failAt in steps, i.e. the step was completed.
Passed(steps, step, failAt) ==
    \E i \in 1..Len(steps) :
        /\ steps[i] = step
        /\ \A j \in 1..i : steps[j] # failAt

(***************************************************************************)
(* The encodings of SendHandler::Send.  A JSON object is a function from   *)
(* its keys; the vector of encodings the caller gives is a sequence, <<>>  *)
(* when the pointer is null or the vector is empty.                        *)
(***************************************************************************)
\* The loop that names the encodings when more than one is given; idx is a
\* uint8_t.
AssignRids(encodings) ==
    IF Len(encodings) > 1
    THEN [i \in 1..Len(encodings) |->
             [encodings[i] EXCEPT !.rid = "r" \o to_string((i - 1) % UInt8)]]
    ELSE encodings

fillJsonRtpEncodingParameters(jsonEncoding, encoding) ==
    [active |-> encoding.active]
    @@ (IF encoding.rid # "" THEN [rid |-> encoding.rid] ELSE EmptyJson)
    @@ (IF "max_bitrate_bps" \in DOMAIN encoding
        THEN [maxBitrate |-> encoding.max_bitrate_bps] ELSE EmptyJson)
    @@ (IF "max_framerate" \in DOMAIN encoding
        THEN [maxFramerate |-> encoding.max_framerate] ELSE EmptyJson)
    @@ (IF "scale_resolution_down_by" \in DOMAIN encoding
        THEN [scaleResolutionDownBy |-> encoding.scale_resolution_down_by]
        ELSE EmptyJson)
    @@ [networkPriority |-> encoding.network_priority]
    @@ jsonEncoding

\* Sdp::Utils::getRtpEncodings on the offer's media entry of a transceiver that
\* sends one stream: one encoding, with the ssrc the engine chose for it.
getRtpEncodings(offerMediaObject) ==
    <<[ssrc |-> "ssrc" \o offerMediaObject.mid]>>

\* The encodings of Send with the caller's encodings used verbatim as soon as
\* there is one.
SendingEncodings_Verbatim(encodings, offerMediaObject) ==
    IF encodings = <<>>
    THEN getRtpEncodings(offerMediaObject)
    ELSE [i \in 1..Len(encodings) |->
             fillJsonRtpEncodingParameters(EmptyJson, encodings[i])]

\* The encodings of Send with every caller's encoding laid over the engine's.
SendingEncodings_AlwaysMerged(encodings, offerMediaObject) ==
    IF encodings = <<>>
    THEN getRtpEncodings(offerMediaObject)
    ELSE [i \in 1..Len(encodings) |->
             fillJsonRtpEncodingParameters(getRtpEncodings(offerMediaObject)[1],
                                           encodings[i])]

\* "Set RTP encodings ...": the three branches on the caller's encodings.
SendingEncodings(encodings, offerMediaObject) ==
    IF encodings = <<>>
    THEN getRtpEncodings(offerMediaObject)
    ELSE IF Len(encodings) = 1
         THEN [getRtpEncodings(offerMediaObject) EXCEPT
                  ![1] = fillJsonRtpEncodingParameters(@, encodings[1])]
         ELSE [i \in 1..Len(encodings) |->
                  fillJsonRtpEncodingParameters(EmptyJson, encodings[i])]

UpperCase ==
    <<"A", "B", "C", "D", "E", "F", "G", "H", "I", "J", "K", "L", "M",
      "N", "O", "P", "Q", "R", "S", "T", "U", "V", "W", "X", "Y", "Z">>

LowerCase ==
    <<"a", "b", "c", "d", "e", "f", "g", "h", "i", "j", "k", "l", "m",
      "n", "o", "p", "q", "r", "s", "t", "u", "v", "w", "x", "y", "z">>

\* ::tolower on one character.
tolower(c) ==
    IF \E i \in 1..Len(UpperCase) : UpperCase[i] = c
    THEN LowerCase[CHOOSE i \in 1..Len(UpperCase) : UpperCase[i] = c]
    ELSE c

\* A comparison of the mimeType as it is written.
ToLowerCase_AsWritten(mimeType) == mimeType

\* std::transform(mimeType.begin(), mimeType.end(), mimeType.begin(), ::tolower)
ToLowerCase(mimeType) == [i \in 1..Len(mimeType) |-> tolower(mimeType[i])]

\* "If VP8 and there is effective simulcast, add scalabilityMode to each encoding."
AddScalabilityMode(encodings, mimeType) ==
    IF /\ Len(encodings) > 1
       /\ ToLowerCase(mimeType) \in {<<"v", "i", "d", "e", "o", "/", "v", "p", "8">>,
                                      <<"v", "i", "d", "e", "o", "/", "h", "2", "6", "4">>}
    THEN [i \in 1..Len(encodings) |-> [scalabilityMode |-> "S1T3"] @@ encodings[i]]
    ELSE encodings

\* The "parameters" of the first codec as the handler is constructed with them.
ConfiguredCodecParameters == [minptime |-> 10]

\* The codecOptions a caller gives to Send; a null pointer and an empty object
\* are treated alike and are EmptyJson.
CodecOptionSets ==
    {EmptyJson}
    \cup {[opusStereo |-> stereo] : stereo \in {0, 1}}
    \cup {[opusFec |-> fec] : fec \in BOOLEAN}
    \cup {[opusStereo |-> 1, opusFec |-> TRUE, opusDtx |-> dtx] : dtx \in BOOLEAN}

\* The constructor of AnswerMediaSection on offerCodec["parameters"], which is
\* a reference into the RTP parameters it was given: what the opus options
\* write there.  The offer's codec and the answer's are the same codec.
OfferCodecParameters(parameters, mimeType, codecOptions) ==
    IF DOMAIN codecOptions = {} THEN parameters
    ELSE IF ToLowerCase(mimeType) = AudioOpus
         THEN (IF "opusDtx" \in DOMAIN codecOptions
               THEN [usedtx |-> IF codecOptions.opusDtx THEN 1 ELSE 0] ELSE EmptyJson)
              @@ (IF "opusFec" \in DOMAIN codecOptions
                  THEN [useinbandfec |-> IF codecOptions.opusFec THEN 1 ELSE 0]
                  ELSE EmptyJson)
              @@ (IF "opusStereo" \in DOMAIN codecOptions
                  THEN ("sprop-stereo" :> (IF codecOptions.opusStereo > 0 THEN 1 ELSE 0))
                  ELSE EmptyJson)
              @@ parameters
         ELSE parameters

\* The member as the constructor stores it: no mid and no encodings yet.
SendingRtpParametersNew(mimeType) ==
    [mimeType |-> mimeType, mid |-> "", encodings |-> <<>>,
     codecParameters |-> ConfiguredCodecParameters]

(***************************************************************************)
(* Handler                                                                 *)
(***************************************************************************)
\* Handler::SetupTransport up to the OnConnect callback: the document after it.
SetupTransport(sdp, localDtlsRole) ==
    UpdateDtlsRole(sdp, IF localDtlsRole = "client" THEN "server" ELSE "client")

Init ==
    /\ handlerKind \in {"send", "recv"}
    /\ \E iceParameters \in IceParameterSets, role \in DtlsRoles :
           remoteSdp = RemoteSdpNew(iceParameters,
                                    DtlsParameters(role, DefaultFingerprints))
    /\ pc = PeerConnectionNew
    /\ transportReady = FALSE
    /\ mapMidTransceiver = EmptyMap
    /\ hasDataChannelMediaSection = FALSE
    /\ nextSendSctpStreamId = 0
    /\ sendingRtpParameters = SendingRtpParametersNew(VideoVP8)
    /\ sendingRemoteRtpParameters = [headerExtensions |-> DefaultHeaderExtensions]
    /\ limits = Limits
    /\ allocated = 0
    /\ emitted = <<>>
    /\ last = Outcome("new", "none", <<>>, "", NoStream)

(***************************************************************************)
(* SendHandler::Send.  track is the kind of the track, or "null".          *)
(***************************************************************************)
\* The steps of Send with the transport set up after SetLocalDescription.
SendSteps_ConnectAfterCommit(ready) ==
    <<"AddTransceiver", "CreateOffer", "SetLocalDescription">>
    \o (IF ready THEN <<>> ELSE <<"OnConnect">>)
    \o <<"mid", "SetRemoteDescription">>

\* The steps of Send with the answer given to the engine before the offer is
\* committed.
SendSteps_RemoteFirst(ready) ==
    <<"AddTransceiver", "CreateOffer">>
    \o (IF ready THEN <<>> ELSE <<"OnConnect">>)
    \o <<"SetRemoteDescription", "SetLocalDescription", "mid">>

\* The engine calls and checks of Send, in order; OnConnect is the callback
\* of SetupTransport, "mid" the read of transceiver->mid().
SendSteps(ready) ==
    <<"AddTransceiver", "CreateOffer">>
    \o (IF ready THEN <<>> ELSE <<"OnConnect">>)
    \o <<"SetLocalDescription", "mid", "SetRemoteDescription">>

SendRollback == <<"SetDirection(inactive)", "SetTrack(null)">>

\* A catch block that sets the direction but leaves the track on the sender.
UndoTransceiver_KeepsTrack(transceiver) ==
    [transceiver EXCEPT !.direction = "inactive"]

\* The catch block of Send: "Panic here. Try to undo things."
UndoTransceiver(transceiver) ==
    [transceiver EXCEPT !.direction = "inactive", !.hasTrack = FALSE]

\* A Send that looks at the track only after it has added the transceiver.
SendMissingTrack_AfterAddTransceiver ==
    /\ pc' = [pc EXCEPT !.transceivers =
                            Append(@, [mid |-> "", direction |-> "sendonly",
                                       hasTrack |-> FALSE, kind |-> "video",
                                       encodings |-> <<TRUE>>, ext |-> <<>>])]
    /\ last' = Outcome("Send", "track", <<"AddTransceiver">>, "", NoStream)
    /\ UNCHANGED <<handlerKind, limits, sendingRemoteRtpParameters, sendingRtpParameters, remoteSdp, transportReady, mapMidTransceiver,
                   hasDataChannelMediaSection, nextSendSctpStreamId, allocated, emitted>>

\* Send without a track: MSC_THROW_TYPE_ERROR("missing track").
SendMissingTrack ==
    /\ last' = Outcome("Send", "track", <<>>, "", NoStream)
    /\ UNCHANGED <<handlerKind, limits, sendingRemoteRtpParameters, sendingRtpParameters, remoteSdp, pc, transportReady, mapMidTransceiver,
                   hasDataChannelMediaSection, nextSendSctpStreamId, allocated, emitted>>

\* ext is the list of header extensions the engine offers for the transceiver.
Send(track, encodings, ext, codecOptions, failAt, directionError) ==
    /\ handlerKind = "send"
    /\ IF track = "null"
       THEN failAt = "track" /\ ~directionError /\ SendMissingTrack
       ELSE LET steps == SendSteps(transportReady)
                done(step) == Passed(steps, step, failAt)
                mediaSectionIdx == GetNextMediaSectionIdx(remoteSdp)
                added == done("AddTransceiver")
                \* the catch block of the try around CreateOffer .. mid()
                rolledBack == added /\ ~done("mid")
                localId == IF done("mid") THEN to_string(pc.nextMid) ELSE ""
                \* SetDirectionWithError(kSendOnly): its RTCError is not looked at;
                \* a transceiver added with a track starts as sendrecv
                sending ==
                    [ mid |-> localId,
                      direction |-> IF directionError THEN "sendrecv" ELSE "sendonly",
                      hasTrack |-> TRUE,
                      kind |-> track,
                      ext |-> ext,
                      \* transceiverInit.send_encodings, or the engine's single one
                      encodings |-> IF encodings = <<>> THEN <<TRUE>>
                                    ELSE [i \in 1..Len(encodings) |-> encodings[i].active] ]
                transceiver == IF rolledBack THEN UndoTransceiver(sending) ELSE sending
                offerMediaObject ==
                    [ mid |-> localId, type |-> track,
                      extmapAllowMixed |-> TRUE, simulcast |-> Len(encodings) > 1,
                      ext |-> ext ]
                afterSetup == IF ~transportReady /\ done("CreateOffer")
                              THEN SetupTransport(remoteSdp, "server")
                              ELSE remoteSdp
                answered == done("mid")
                afterAnswer ==
                    IF answered
                    THEN GetSdp(CreateAnswer(afterSetup, offerMediaObject,
                                             mediaSectionIdx.reuseMid,
                                             sendingRemoteRtpParameters))
                    ELSE afterSetup
            IN /\ failAt \in {steps[i] : i \in 1..Len(steps)} \cup {"none"}
               /\ directionError => added
               /\ Len(pc.transceivers) < limits.transceivers
               /\ answered => /\ mediaSectionIdx.idx < limits.sections
                               /\ remoteSdp.sessionVersion < limits.versions
               /\ pc' = IF added
                        THEN [ transceivers |-> Append(pc.transceivers, transceiver),
                               nextMid |-> IF done("mid") THEN pc.nextMid + 1
                                           ELSE pc.nextMid ]
                        ELSE pc
               /\ remoteSdp' = afterAnswer
               /\ sendingRtpParameters' =
                      IF done("mid")
                      THEN [sendingRtpParameters EXCEPT
                               !.mid = localId,
                               !.encodings =
                                   AddScalabilityMode(
                                       SendingEncodings(AssignRids(encodings),
                                                        offerMediaObject),
                                       sendingRtpParameters.mimeType),
                               \* CreateAnswer is given the member by reference
                               !.codecParameters =
                                   OfferCodecParameters(@, sendingRtpParameters.mimeType,
                                                        codecOptions)]
                      ELSE sendingRtpParameters
               /\ transportReady' = (transportReady \/ done("OnConnect"))
               /\ mapMidTransceiver' =
                      IF failAt = "none"
                      THEN MapSet(mapMidTransceiver, localId, Len(pc.transceivers) + 1)
                      ELSE mapMidTransceiver
               /\ emitted' = IF answered
                             THEN Append(emitted, afterAnswer.sessionVersion)
                             ELSE emitted
               /\ last' = [Outcome("Send", failAt,
                                   CallsUpTo(steps, failAt)
                                       \o (IF rolledBack THEN SendRollback ELSE <<>>),
                                   localId, NoStream)
                              EXCEPT !.reported = IF directionError
                                                  THEN @ \cup {"SetDirection"} ELSE @,
                                     !.arg = encodings,
                                     !.codecOptions = codecOptions]
               /\ UNCHANGED <<handlerKind, limits, sendingRemoteRtpParameters, hasDataChannelMediaSection,
                              nextSendSctpStreamId, allocated>>

\* A lookup that throws only after the engine has been asked.
NotFound_AfterEngineCall(op, localId) ==
    /\ last' = Outcome(op, "lookup", <<"GetStats">>, localId, NoStream)
    /\ UNCHANGED <<handlerKind, limits, sendingRemoteRtpParameters, sendingRtpParameters, remoteSdp, pc, transportReady, mapMidTransceiver,
                   hasDataChannelMediaSection, nextSendSctpStreamId, allocated, emitted>>

\* The outcome of a method that found no transceiver for localId: it throws
\* before it touches anything.
NotFound(op, localId) ==
    /\ last' = Outcome(op, "lookup", <<>>, localId, NoStream)
    /\ UNCHANGED <<handlerKind, limits, sendingRemoteRtpParameters, sendingRtpParameters, remoteSdp, pc, transportReady, mapMidTransceiver,
                   hasDataChannelMediaSection, nextSendSctpStreamId, allocated, emitted>>

StopSendingSteps == <<"CreateOffer", "SetLocalDescription", "SetRemoteDescription">>

StopSending(localId, failAt) ==
    /\ handlerKind = "send"
    /\ IF localId \notin DOMAIN mapMidTransceiver
       THEN failAt = "lookup" /\ NotFound("StopSending", localId)
       ELSE LET transceiver == mapMidTransceiver[localId]
                closed == CloseMediaSection(remoteSdp, pc.transceivers[transceiver].mid)
                serialized == Passed(StopSendingSteps, "SetLocalDescription", failAt)
                after == IF serialized THEN GetSdp(closed) ELSE closed
            IN /\ failAt \in {StopSendingSteps[i] : i \in 1..3} \cup {"none"}
               /\ serialized => remoteSdp.sessionVersion < limits.versions
               /\ pc' = [pc EXCEPT !.transceivers[transceiver].hasTrack = FALSE]
               /\ remoteSdp' = after
               /\ emitted' = IF serialized THEN Append(emitted, after.sessionVersion)
                             ELSE emitted
               /\ last' = Outcome("StopSending", failAt,
                                  <<"SetTrack(null)", "RemoveTrack">>
                                      \o CallsUpTo(StopSendingSteps, failAt),
                                  localId, NoStream)
               /\ UNCHANGED <<handlerKind, limits, sendingRemoteRtpParameters, sendingRtpParameters, transportReady, mapMidTransceiver,
                              hasDataChannelMediaSection, nextSendSctpStreamId, allocated>>

\* A ReplaceTrack that drops the association when it takes the track away.
ReplaceTrack_AssociationErased(localId, track) ==
    /\ handlerKind = "send"
    /\ IF localId \notin DOMAIN mapMidTransceiver
       THEN NotFound("ReplaceTrack", localId)
       ELSE LET transceiver == mapMidTransceiver[localId] IN
            /\ pc' = [pc EXCEPT !.transceivers[transceiver].hasTrack = (track # "null")]
            /\ mapMidTransceiver' = IF track = "null"
                                    THEN MapErase(mapMidTransceiver, localId)
                                    ELSE mapMidTransceiver
            /\ last' = Outcome("ReplaceTrack", "none", <<"SetTrack">>, localId, NoStream)
            /\ UNCHANGED <<handlerKind, limits, sendingRemoteRtpParameters,
                           sendingRtpParameters, remoteSdp, transportReady,
                           hasDataChannelMediaSection, nextSendSctpStreamId,
                           allocated, emitted>>

\* track is the kind of the new track, or "null".
ReplaceTrack(localId, track) ==
    /\ handlerKind = "send"
    /\ IF localId \notin DOMAIN mapMidTransceiver
       THEN NotFound("ReplaceTrack", localId)
       ELSE LET transceiver == mapMidTransceiver[localId] IN
            /\ pc' = [pc EXCEPT !.transceivers[transceiver].hasTrack = (track # "null")]
            /\ last' = Outcome("ReplaceTrack", "none", <<"SetTrack">>, localId, NoStream)
            /\ UNCHANGED <<handlerKind, limits, sendingRemoteRtpParameters, sendingRtpParameters, remoteSdp, transportReady, mapMidTransceiver,
                           hasDataChannelMediaSection, nextSendSctpStreamId,
                           allocated, emitted>>

\* An "Edit encodings" block that is off by one layer.
EditEncodings_OffByOne(encodings, spatialLayer) ==
    [i \in 1..Len(encodings) |->
        IF i <= 3 /\ spatialLayer \in 1..3 THEN i < spatialLayer ELSE encodings[i]]

\* The encodings of SetMaxSpatialLayer after its "Edit encodings" block.
EditEncodings(encodings, spatialLayer) ==
    [i \in 1..Len(encodings) |->
        IF i <= 3 /\ spatialLayer \in 1..3 THEN i <= spatialLayer ELSE encodings[i]]

SetMaxSpatialLayer(localId, spatialLayer, failAt) ==
    /\ handlerKind = "send"
    /\ IF localId \notin DOMAIN mapMidTransceiver
       THEN failAt = "lookup" /\ NotFound("SetMaxSpatialLayer", localId)
       ELSE LET transceiver == mapMidTransceiver[localId] IN
            /\ failAt \in {"SetParameters", "none"}
            /\ pc' = IF failAt = "none"
                     THEN [pc EXCEPT !.transceivers[transceiver].encodings =
                                         EditEncodings(@, spatialLayer)]
                     ELSE pc
            /\ last' = [Outcome("SetMaxSpatialLayer", failAt,
                                <<"GetParameters", "SetParameters">>, localId, NoStream)
                           EXCEPT !.arg = spatialLayer]
            /\ UNCHANGED <<handlerKind, limits, sendingRemoteRtpParameters, sendingRtpParameters, remoteSdp, transportReady, mapMidTransceiver,
                           hasDataChannelMediaSection, nextSendSctpStreamId,
                           allocated, emitted>>

\* GetSenderStats and GetReceiverStats.
GetStats(op, localId, failAt) ==
    /\ handlerKind = (IF op = "GetSenderStats" THEN "send" ELSE "recv")
    /\ IF localId \notin DOMAIN mapMidTransceiver
       THEN failAt = "lookup" /\ NotFound(op, localId)
       ELSE /\ failAt \in {"GetStats", "none"}
            /\ last' = Outcome(op, failAt, <<"GetStats">>, localId, NoStream)
            /\ UNCHANGED <<handlerKind, limits, sendingRemoteRtpParameters, sendingRtpParameters, remoteSdp, pc, transportReady, mapMidTransceiver,
                           hasDataChannelMediaSection, nextSendSctpStreamId,
                           allocated, emitted>>

SendRestartIceSteps == <<"CreateOffer", "SetLocalDescription", "SetRemoteDescription">>

RecvRestartIceSteps == <<"SetRemoteDescription", "CreateAnswer", "SetLocalDescription">>

\* SendHandler::RestartIce and RecvHandler::RestartIce.
RestartIce(iceParameters, failAt) ==
    LET updated == UpdateIceParameters(remoteSdp, iceParameters)
        steps == IF handlerKind = "send" THEN SendRestartIceSteps ELSE RecvRestartIceSteps
        serialized == IF handlerKind = "send"
                      THEN Passed(steps, "SetLocalDescription", failAt)
                      ELSE TRUE
        after == IF serialized THEN GetSdp(updated) ELSE updated
    IN /\ IF ~transportReady
          THEN /\ failAt = "none"
               /\ remoteSdp' = updated
               /\ emitted' = emitted
               /\ last' = [Outcome("RestartIce", failAt, <<>>, "", NoStream)
                              EXCEPT !.arg = iceParameters]
          ELSE /\ failAt \in {steps[i] : i \in 1..3} \cup {"none"}
               /\ serialized => remoteSdp.sessionVersion < limits.versions
               /\ remoteSdp' = after
               /\ emitted' = IF serialized THEN Append(emitted, after.sessionVersion)
                             ELSE emitted
               /\ last' = [Outcome("RestartIce", failAt, CallsUpTo(steps, failAt),
                                   "", NoStream) EXCEPT !.arg = iceParameters]
       /\ UNCHANGED <<handlerKind, limits, sendingRemoteRtpParameters, sendingRtpParameters, pc, transportReady, mapMidTransceiver,
                      hasDataChannelMediaSection, nextSendSctpStreamId, allocated>>

(***************************************************************************)
(* Data channels.  limit caps the number of channels opened.               *)
(***************************************************************************)
\* An increase of the next id that never wraps.
NextSctpStreamId_NoWrap(streamId) == streamId + 1

\* "Increase next id."
NextSctpStreamId(streamId) == (streamId + 1) % SctpNumStreamsMis

SendDataChannelSteps(ready) ==
    <<"CreateDataChannel", "CreateOffer", "application">>
    \o (IF ready THEN <<>> ELSE <<"OnConnect">>)
    \o <<"SetLocalDescription", "SetRemoteDescription">>

SendDataChannel(failAt, limit) ==
    LET streamId == nextSendSctpStreamId
        steps == IF hasDataChannelMediaSection THEN <<"CreateDataChannel">>
                 ELSE SendDataChannelSteps(transportReady)
        done(step) == Passed(steps, step, failAt)
        first == ~hasDataChannelMediaSection
        offerMediaObject ==
            [ mid |-> to_string(pc.nextMid), type |-> "application",
              extmapAllowMixed |-> FALSE, simulcast |-> FALSE, ext |-> <<>> ]
        afterSetup == IF first /\ ~transportReady /\ done("application")
                      THEN SetupTransport(remoteSdp, "server")
                      ELSE remoteSdp
        associated == first /\ done("SetLocalDescription")
        after == IF associated
                 THEN GetSdp(SendSctpAssociation(afterSetup, offerMediaObject))
                 ELSE afterSetup
    IN /\ handlerKind = "send"
       /\ failAt \in ({steps[i] : i \in 1..Len(steps)} \ {"CreateDataChannel"}) \cup {"none"}
       /\ allocated < limit
       /\ associated => /\ Len(remoteSdp.mediaSections) < limits.sections
                        /\ remoteSdp.sessionVersion < limits.versions
       /\ nextSendSctpStreamId' = NextSctpStreamId(nextSendSctpStreamId)
       /\ allocated' = allocated + 1
       /\ remoteSdp' = after
       /\ pc' = IF associated THEN [pc EXCEPT !.nextMid = @ + 1] ELSE pc
       /\ transportReady' = (transportReady \/ (first /\ done("OnConnect")))
       /\ hasDataChannelMediaSection' = (hasDataChannelMediaSection \/ failAt = "none")
       /\ emitted' = IF associated THEN Append(emitted, after.sessionVersion) ELSE emitted
       /\ last' = Outcome("SendDataChannel", failAt, CallsUpTo(steps, failAt),
                          to_string(streamId), streamId)
       /\ UNCHANGED <<handlerKind, limits, sendingRemoteRtpParameters, sendingRtpParameters, mapMidTransceiver>>

\* The steps of the first ReceiveDataChannel with the transport set up after
\* the answer is committed.
ReceiveDataChannelSteps_ConnectLast(ready) ==
    <<"CreateDataChannel", "SetRemoteDescription", "CreateAnswer", "SetLocalDescription">>
    \o (IF ready THEN <<>> ELSE <<"OnConnect">>)

ReceiveDataChannelSteps(ready) ==
    <<"CreateDataChannel", "SetRemoteDescription", "CreateAnswer">>
    \o (IF ready THEN <<>> ELSE <<"OnConnect">>)
    \o <<"SetLocalDescription">>

ReceiveDataChannel(failAt, limit) ==
    LET streamId == nextSendSctpStreamId
        steps == IF hasDataChannelMediaSection THEN <<"CreateDataChannel">>
                 ELSE ReceiveDataChannelSteps(transportReady)
        done(step) == Passed(steps, step, failAt)
        first == ~hasDataChannelMediaSection
        associated == IF first THEN GetSdp(RecvSctpAssociation(remoteSdp)) ELSE remoteSdp
        after == IF first /\ ~transportReady /\ done("CreateAnswer")
                 THEN SetupTransport(associated, "client")
                 ELSE associated
    IN /\ handlerKind = "recv"
       /\ failAt \in ({steps[i] : i \in 1..Len(steps)} \ {"CreateDataChannel"}) \cup {"none"}
       /\ allocated < limit
       /\ first => /\ Len(remoteSdp.mediaSections) < limits.sections
                   /\ remoteSdp.sessionVersion < limits.versions
       /\ nextSendSctpStreamId' = NextSctpStreamId(nextSendSctpStreamId)
       /\ allocated' = allocated + 1
       /\ remoteSdp' = after
       /\ pc' = IF first /\ done("SetRemoteDescription")
                THEN [pc EXCEPT !.transceivers = TransceiversFor(@, after.mediaSections)]
                ELSE pc
       /\ transportReady' = (transportReady \/ (first /\ done("OnConnect")))
       /\ hasDataChannelMediaSection' = (hasDataChannelMediaSection \/ failAt = "none")
       /\ emitted' = IF first THEN Append(emitted, associated.sessionVersion) ELSE emitted
       /\ last' = Outcome("ReceiveDataChannel", failAt, CallsUpTo(steps, failAt),
                          to_string(streamId), streamId)
       /\ UNCHANGED <<handlerKind, limits, sendingRemoteRtpParameters, sendingRtpParameters, mapMidTransceiver>>

(***************************************************************************)
(* RecvHandler::Receive.  mid is rtpParameters["mid"], "" when it is       *)
(* absent, not a string or empty.                                          *)
(***************************************************************************)
\* The steps of Receive with the transport set up before the engine is asked
\* for its answer.
ReceiveSteps_ConnectFirst(ready) ==
    (IF ready THEN <<>> ELSE <<"OnConnect">>)
    \o <<"SetRemoteDescription", "CreateAnswer", "SetLocalDescription", "transceiver">>

ReceiveSteps(ready) ==
    <<"SetRemoteDescription", "CreateAnswer">>
    \o (IF ready THEN <<>> ELSE <<"OnConnect">>)
    \o <<"SetLocalDescription", "transceiver">>

\* A local identifier taken from any "mid" the caller put in rtpParameters.
ReceiveLocalId_AnyMid(mid, associations) ==
    IF mid.type # "absent" THEN mid.value
    ELSE to_string(Cardinality(DOMAIN associations))

\* "mid is optional, check whether it exists and is a non empty string."
ReceiveLocalId(mid, associations) ==
    IF mid.type # "absent" /\ (mid.type = "string" /\ mid.value # "")
    THEN mid.value
    ELSE to_string(Cardinality(DOMAIN associations))

Receive(mid, kind, failAt) ==
    LET steps == ReceiveSteps(transportReady)
        done(step) == Passed(steps, step, failAt)
        localId == ReceiveLocalId(mid, mapMidTransceiver)
        offered == GetSdp(CreateOffer(remoteSdp, localId, kind))
        after == IF ~transportReady /\ done("CreateAnswer")
                 THEN SetupTransport(offered, "client")
                 ELSE offered
        \* the engine made no transceiver for localId when the lookup fails
        transceivers ==
            IF ~done("SetRemoteDescription") THEN pc.transceivers
            ELSE IF failAt = "transceiver"
                 THEN TransceiversFor(pc.transceivers,
                                      SelectSeq(after.mediaSections,
                                                LAMBDA s : s.mid # localId))
                 ELSE TransceiversFor(pc.transceivers, after.mediaSections)
    IN /\ handlerKind = "recv"
       /\ failAt \in {steps[i] : i \in 1..Len(steps)} \cup {"none"}
       /\ failAt = "transceiver" =>
              \A i \in 1..Len(pc.transceivers) : pc.transceivers[i].mid # localId
       /\ Len(remoteSdp.mediaSections) < limits.sections
       /\ remoteSdp.sessionVersion < limits.versions
       /\ remoteSdp' = after
       /\ pc' = [pc EXCEPT !.transceivers = transceivers]
       /\ transportReady' = (transportReady \/ done("OnConnect"))
       /\ mapMidTransceiver' =
              IF failAt = "none"
              THEN MapSet(mapMidTransceiver, localId, FindTransceiver(transceivers, localId))
              ELSE mapMidTransceiver
       /\ emitted' = Append(emitted, offered.sessionVersion)
       /\ last' = [Outcome("Receive", failAt, CallsUpTo(steps, failAt), localId,
                           NoStream) EXCEPT !.arg = mid]
       /\ UNCHANGED <<handlerKind, limits, sendingRemoteRtpParameters, sendingRtpParameters, hasDataChannelMediaSection, nextSendSctpStreamId,
                      allocated>>

StopReceivingSteps == <<"SetRemoteDescription", "CreateAnswer", "SetLocalDescription">>

\* A StopReceiving that forgets the association once it has succeeded.
StopReceiving_AssociationErased(localId, failAt) ==
    /\ handlerKind = "recv"
    /\ IF localId \notin DOMAIN mapMidTransceiver
       THEN failAt = "lookup" /\ NotFound("StopReceiving", localId)
       ELSE LET transceiver == mapMidTransceiver[localId]
                after == GetSdp(CloseMediaSection(remoteSdp, pc.transceivers[transceiver].mid))
            IN /\ failAt \in {StopReceivingSteps[i] : i \in 1..3} \cup {"none"}
               /\ remoteSdp.sessionVersion < limits.versions
               /\ remoteSdp' = after
               /\ emitted' = Append(emitted, after.sessionVersion)
               /\ mapMidTransceiver' = IF failAt = "none"
                                       THEN MapErase(mapMidTransceiver, localId)
                                       ELSE mapMidTransceiver
               /\ last' = Outcome("StopReceiving", failAt,
                                  CallsUpTo(StopReceivingSteps, failAt), localId, NoStream)
               /\ UNCHANGED <<handlerKind, limits, sendingRemoteRtpParameters,
                              sendingRtpParameters, pc, transportReady,
                              hasDataChannelMediaSection, nextSendSctpStreamId, allocated>>

StopReceiving(localId, failAt) ==
    /\ handlerKind = "recv"
    /\ IF localId \notin DOMAIN mapMidTransceiver
       THEN failAt = "lookup" /\ NotFound("StopReceiving", localId)
       ELSE LET transceiver == mapMidTransceiver[localId]
                after == GetSdp(CloseMediaSection(remoteSdp, pc.transceivers[transceiver].mid))
            IN /\ failAt \in {StopReceivingSteps[i] : i \in 1..3} \cup {"none"}
               /\ remoteSdp.sessionVersion < limits.versions
               /\ remoteSdp' = after
               /\ emitted' = Append(emitted, after.sessionVersion)
               /\ last' = Outcome("StopReceiving", failAt,
                                  CallsUpTo(StopReceivingSteps, failAt), localId, NoStream)
               /\ UNCHANGED <<handlerKind, limits, sendingRemoteRtpParameters, sendingRtpParameters, pc, transportReady, mapMidTransceiver,
                              hasDataChannelMediaSection, nextSendSctpStreamId, allocated>>

\* Handler::Close, Handler::GetTransportStats and Handler::UpdateIceServers: one
\* engine call each, nothing of the handler or the document is touched.
EngineOnly(op, call, failAt) ==
    /\ failAt \in (IF op = "Close" THEN {"none"} ELSE {call, "none"})
    /\ last' = Outcome(op, failAt, <<call>>, "", NoStream)
    /\ UNCHANGED <<handlerKind, limits, sendingRemoteRtpParameters, sendingRtpParameters, remoteSdp, pc, transportReady, mapMidTransceiver,
                   hasDataChannelMediaSection, nextSendSctpStreamId, allocated, emitted>>

(***************************************************************************)
(* Next: the methods that negotiate.  Queries: the methods that only ask   *)
(* the engine or change a sender; QueryNext runs them on the documents of  *)
(* short negotiations.                                                     *)
(***************************************************************************)
Next ==
    \/ \E track \in TrackKinds \cup {"null"},
          encodings \in {EncodingsOfLength(n) : n \in EncodingCounts},
          failAt \in {"none", "track", "AddTransceiver", "CreateOffer", "OnConnect",
                      "SetLocalDescription", "mid", "SetRemoteDescription"} :
           Send(track, encodings, DefaultLocalExts, EmptyJson, failAt, FALSE)
    \/ \E localId \in DOMAIN mapMidTransceiver \cup {UnknownId},
          failAt \in {"lookup", "none", "CreateOffer", "SetLocalDescription",
                      "SetRemoteDescription"} :
           StopSending(localId, failAt)
    \/ \E iceParameters \in IceParameterSets,
          failAt \in {"none", "CreateOffer", "CreateAnswer", "SetLocalDescription",
                      "SetRemoteDescription"} :
           RestartIce(iceParameters, failAt)
    \/ \E failAt \in {"none", "CreateOffer", "application", "OnConnect",
                      "SetLocalDescription", "SetRemoteDescription"} :
           SendDataChannel(failAt, MaxDataChannels)
    \/ \E failAt \in {"none", "SetRemoteDescription", "CreateAnswer", "OnConnect",
                      "SetLocalDescription"} :
           ReceiveDataChannel(failAt, MaxDataChannels)
    \/ \E mid \in CallerMids, kind \in TrackKinds,
          failAt \in {"none", "SetRemoteDescription", "CreateAnswer", "OnConnect",
                      "SetLocalDescription", "transceiver"} :
           Receive(mid, kind, failAt)
    \/ \E localId \in DOMAIN mapMidTransceiver \cup {UnknownId},
          failAt \in {"lookup", "none", "SetRemoteDescription", "CreateAnswer",
                      "SetLocalDescription"} :
           StopReceiving(localId, failAt)

Queries ==
    \/ \E localId \in DOMAIN mapMidTransceiver \cup {UnknownId},
          track \in TrackKinds \cup {"null"} :
           ReplaceTrack(localId, track)
    \/ \E localId \in DOMAIN mapMidTransceiver \cup {UnknownId},
          spatialLayer \in 1..3, failAt \in {"lookup", "none", "SetParameters"} :
           SetMaxSpatialLayer(localId, spatialLayer, failAt)
    \/ \E op \in {"GetSenderStats", "GetReceiverStats"},
          localId \in DOMAIN mapMidTransceiver \cup {UnknownId},
          failAt \in {"lookup", "none", "GetStats"} :
           GetStats(op, localId, failAt)
    \/ \E failAt \in {"none", "GetStats"} :
           EngineOnly("GetTransportStats", "GetStats", failAt)
    \/ \E failAt \in {"none", "SetConfiguration"} :
           EngineOnly("UpdateIceServers", "SetConfiguration", failAt)
    \/ EngineOnly("Close", "Close", "none")

QueryNext ==
    \/ remoteSdp.sessionVersion < MaxQueryVersion /\ Next
    \/ Queries
    \/ StopSending(UnknownId, "lookup")
    \/ StopReceiving(UnknownId, "lookup")

Spec == Init /\ [][Next]_vars

SpecQueries == Init /\ [][QueryNext]_vars

(***************************************************************************)
(* SpecSctp: enough data channels for the stream id to wrap around, with   *)
(* one producer or consumer that may be started and stopped in between.    *)
(***************************************************************************)
SctpInit ==
    /\ Init
    /\ remoteSdp.dtlsRole = "auto"
    /\ HasIceLite(remoteSdp.iceParameters)

SctpNext ==
    \/ \E failAt \in {"none", "CreateOffer"} :
           SendDataChannel(failAt, SctpNumStreamsMis + MaxWrapExtra)
    \/ \E failAt \in {"none", "CreateAnswer"} :
           ReceiveDataChannel(failAt, SctpNumStreamsMis + MaxWrapExtra)
    \/ pc.transceivers = <<>> /\ Send("video", <<>>, DefaultLocalExts, EmptyJson, "none", FALSE)
    \/ pc.transceivers = <<>> /\ Receive(MidString("a"), "video", "none")
    \/ \E localId \in DOMAIN mapMidTransceiver : StopSending(localId, "none")
    \/ \E localId \in DOMAIN mapMidTransceiver : StopReceiving(localId, "none")

SpecSctp == SctpInit /\ [][SctpNext]_vars

(***************************************************************************)
(* SpecSend: a SendHandler constructed with any of the mimeTypes, whose    *)
(* Send is given any of the vectors of encodings and whose engine may      *)
(* report an error when the direction is set.                              *)
(***************************************************************************)
SendInit ==
    /\ handlerKind = "send"
    /\ \E iceParameters \in IceParameterSets :
           /\ HasIceLite(iceParameters)
           /\ remoteSdp = RemoteSdpNew(iceParameters,
                                       DtlsParameters("auto", DefaultFingerprints))
    /\ pc = PeerConnectionNew
    /\ transportReady = FALSE
    /\ mapMidTransceiver = EmptyMap
    /\ hasDataChannelMediaSection = FALSE
    /\ nextSendSctpStreamId = 0
    /\ \E mimeType \in MimeTypes :
           sendingRtpParameters = SendingRtpParametersNew(mimeType)
    /\ sendingRemoteRtpParameters = [headerExtensions |-> DefaultHeaderExtensions]
    /\ limits = Limits
    /\ allocated = 0
    /\ emitted = <<>>
    /\ last = Outcome("new", "none", <<>>, "", NoStream)

SendNext ==
    \/ \E track \in TrackKinds \cup {"null"}, encodings \in EncodingLists,
          failAt \in {"none", "track", "CreateOffer", "SetRemoteDescription"},
          directionError \in BOOLEAN :
           /\ Len(pc.transceivers) < MaxSends
           /\ Send(track, encodings, DefaultLocalExts, EmptyJson, failAt, directionError)
    \/ \E localId \in DOMAIN mapMidTransceiver \cup {UnknownId},
          spatialLayer \in 0..4, failAt \in {"lookup", "none", "SetParameters"} :
           SetMaxSpatialLayer(localId, spatialLayer, failAt)

SpecSend == SendInit /\ [][SendNext]_vars

(***************************************************************************)
(* SpecInitialize: a handler constructed with any of the ICE parameters,   *)
(* roles and lists of fingerprints, whose ICE parameters are then replaced *)
(* before any negotiation.                                                 *)
(***************************************************************************)
InitializeInit ==
    /\ handlerKind \in {"send", "recv"}
    /\ \E iceParameters \in IceParameterSets \cup {IceNotLite}, role \in DtlsRoles,
          fingerprints \in FingerprintLists :
           remoteSdp = RemoteSdpNew(iceParameters, DtlsParameters(role, fingerprints))
    /\ pc = PeerConnectionNew
    /\ transportReady = FALSE
    /\ mapMidTransceiver = EmptyMap
    /\ hasDataChannelMediaSection = FALSE
    /\ nextSendSctpStreamId = 0
    /\ sendingRtpParameters = SendingRtpParametersNew(VideoVP8)
    /\ sendingRemoteRtpParameters = [headerExtensions |-> DefaultHeaderExtensions]
    /\ limits = Limits
    /\ allocated = 0
    /\ emitted = <<>>
    /\ last = Outcome("new", "none", <<>>, "", NoStream)

InitializeNext ==
    \E iceParameters \in IceParameterSets \cup {IceNotLite} :
        RestartIce(iceParameters, "none")

SpecInitialize == InitializeInit /\ [][InitializeNext]_vars

(***************************************************************************)
(* SpecSlots: negotiations long enough for a section to be closed and a    *)
(* section to be built afterwards; no engine call fails but the last one   *)
(* of Send.                                                                *)
(***************************************************************************)
SlotsInit ==
    /\ handlerKind \in {"send", "recv"}
    /\ \E iceParameters \in IceParameterSets :
           remoteSdp = RemoteSdpNew(iceParameters,
                                    DtlsParameters("auto", DefaultFingerprints))
    /\ pc = PeerConnectionNew
    /\ transportReady = FALSE
    /\ mapMidTransceiver = EmptyMap
    /\ hasDataChannelMediaSection = FALSE
    /\ nextSendSctpStreamId = 0
    /\ sendingRtpParameters = SendingRtpParametersNew(VideoVP8)
    /\ sendingRemoteRtpParameters = [headerExtensions |-> DefaultHeaderExtensions]
    /\ limits = SlotLimits
    /\ allocated = 0
    /\ emitted = <<>>
    /\ last = Outcome("new", "none", <<>>, "", NoStream)

SlotsNext ==
    \/ \E failAt \in {"none", "SetRemoteDescription"} :
           Send("video", <<>>, DefaultLocalExts, EmptyJson, failAt, FALSE)
    \/ \E localId \in DOMAIN mapMidTransceiver : StopSending(localId, "none")
    \/ SendDataChannel("none", MaxDataChannels)
    \/ \E mid \in {MidAbsent, MidString("a")} : Receive(mid, "video", "none")
    \/ \E localId \in DOMAIN mapMidTransceiver : StopReceiving(localId, "none")
    \/ ReceiveDataChannel("none", MaxDataChannels)
    \/ \E iceParameters \in IceParameterSets : RestartIce(iceParameters, "none")

SpecSlots == SlotsInit /\ [][SlotsNext]_vars

(***************************************************************************)
(* SpecExt: a SendHandler constructed with any of the lists of header      *)
(* extensions, whose engine offers any of the lists for a transceiver.     *)
(***************************************************************************)
ExtInit ==
    /\ handlerKind = "send"
    /\ \E iceParameters \in IceParameterSets :
           /\ HasIceLite(iceParameters)
           /\ remoteSdp = RemoteSdpNew(iceParameters,
                                       DtlsParameters("auto", DefaultFingerprints))
    /\ pc = PeerConnectionNew
    /\ transportReady = FALSE
    /\ mapMidTransceiver = EmptyMap
    /\ hasDataChannelMediaSection = FALSE
    /\ nextSendSctpStreamId = 0
    /\ sendingRtpParameters = SendingRtpParametersNew(VideoVP8)
    /\ \E headerExtensions \in HeaderExtensionLists :
           sendingRemoteRtpParameters = [headerExtensions |-> headerExtensions]
    /\ limits = Limits
    /\ allocated = 0
    /\ emitted = <<>>
    /\ last = Outcome("new", "none", <<>>, "", NoStream)

ExtNext ==
    \/ \E ext \in LocalExtLists : Send("video", <<>>, ext, EmptyJson, "none", FALSE)
    \/ \E localId \in DOMAIN mapMidTransceiver : StopSending(localId, "none")

SpecExt == ExtInit /\ [][ExtNext]_vars

(***************************************************************************)
(* SpecCodec: a SendHandler for audio tracks whose first codec is opus (in *)
(* either case of the letters), or whose codec is VP8 while Send is given  *)
(* opus options all the same; Send is given any of the codecOptions.       *)
(***************************************************************************)
CodecInit ==
    /\ handlerKind = "send"
    /\ \E iceParameters \in IceParameterSets :
           /\ HasIceLite(iceParameters)
           /\ remoteSdp = RemoteSdpNew(iceParameters,
                                       DtlsParameters("auto", DefaultFingerprints))
    /\ pc = PeerConnectionNew
    /\ transportReady = FALSE
    /\ mapMidTransceiver = EmptyMap
    /\ hasDataChannelMediaSection = FALSE
    /\ nextSendSctpStreamId = 0
    /\ \E mimeType \in {AudioOpus, <<"a", "u", "d", "i", "o", "/", "O", "P", "U", "S">>,
                          VideoVP8} :
           sendingRtpParameters = SendingRtpParametersNew(mimeType)
    /\ sendingRemoteRtpParameters = [headerExtensions |-> DefaultHeaderExtensions]
    /\ limits = Limits
    /\ allocated = 0
    /\ emitted = <<>>
    /\ last = Outcome("new", "none", <<>>, "", NoStream)

CodecNext ==
    \/ \E codecOptions \in CodecOptionSets, failAt \in {"none", "SetRemoteDescription"} :
           Send(IF sendingRtpParameters.mimeType = VideoVP8 THEN "video" ELSE "audio",
                <<>>, DefaultLocalExts, codecOptions, failAt, FALSE)
    \/ \E localId \in DOMAIN mapMidTransceiver : StopSending(localId, "none")

SpecCodec == CodecInit /\ [][CodecNext]_vars

(***************************************************************************)
(* SpecDocument: the public methods of Sdp::RemoteSdp called on the        *)
(* document directly, a SendHandler's document taking answers and a        *)
(* RecvHandler's offers.  Sections are closed and disabled by mids the     *)
(* document holds.                                                         *)
(***************************************************************************)
DocumentMids == {"0", "1", "a"}

\* One method of the document: sdp is the document after it.
Document(op, mid, sdp) ==
    /\ remoteSdp' = sdp
    /\ last' = Outcome(op, "none", <<>>, mid, NoStream)
    /\ UNCHANGED <<handlerKind, limits, sendingRemoteRtpParameters, sendingRtpParameters,
                   pc, transportReady, mapMidTransceiver, hasDataChannelMediaSection,
                   nextSendSctpStreamId, allocated, emitted>>

DocumentNext ==
    \/ \E iceParameters \in IceParameterSets :
           Document("UpdateIceParameters", "",
                    UpdateIceParameters(remoteSdp, iceParameters))
    \/ \E role \in DtlsRoles :
           Document("UpdateDtlsRole", "", UpdateDtlsRole(remoteSdp, role))
    \/ \E mid \in DocumentMids \ DOMAIN remoteSdp.midToIndex, kind \in TrackKinds :
           LET mediaSectionIdx == GetNextMediaSectionIdx(remoteSdp) IN
           /\ handlerKind = "send"
           /\ mediaSectionIdx.idx < limits.sections
           /\ Document("CreateAnswer", mid,
                       CreateAnswer(remoteSdp,
                                    [mid |-> mid, type |-> kind, extmapAllowMixed |-> TRUE,
                                     simulcast |-> FALSE, ext |-> DefaultLocalExts],
                                    mediaSectionIdx.reuseMid,
                                    sendingRemoteRtpParameters))
    \/ \E mid \in DocumentMids \ DOMAIN remoteSdp.midToIndex :
           /\ handlerKind = "send"
           /\ Len(remoteSdp.mediaSections) < limits.sections
           /\ \A i \in 1..Len(remoteSdp.mediaSections) :
                  remoteSdp.mediaSections[i].type # "application"
           /\ Document("SendSctpAssociation", mid,
                       SendSctpAssociation(remoteSdp,
                                           [mid |-> mid, type |-> "application",
                                            extmapAllowMixed |-> FALSE,
                                            simulcast |-> FALSE, ext |-> <<>>]))
    \/ \E mid \in DocumentMids \ DOMAIN remoteSdp.midToIndex, kind \in TrackKinds :
           /\ handlerKind = "recv"
           /\ Len(remoteSdp.mediaSections) < limits.sections
           /\ Document("CreateOffer", mid, CreateOffer(remoteSdp, mid, kind))
    \/ /\ handlerKind = "recv"
       /\ Len(remoteSdp.mediaSections) < limits.sections
       /\ "datachannel" \notin DOMAIN remoteSdp.midToIndex
       /\ Document("RecvSctpAssociation", "datachannel", RecvSctpAssociation(remoteSdp))
    \/ \E mid \in DOMAIN remoteSdp.midToIndex :
           Document("DisableMediaSection", mid, DisableMediaSection(remoteSdp, mid))
    \/ \E mid \in DOMAIN remoteSdp.midToIndex :
           Document("CloseMediaSection", mid, CloseMediaSection(remoteSdp, mid))

SpecDocument == Init /\ [][DocumentNext]_vars

(***************************************************************************)
(* Properties                                                              *)
(***************************************************************************)
\* The mids of the sections that are not closed, in index order.
NonClosedMids ==
    LET open == SelectSeq(remoteSdp.mediaSections, LAMBDA s : s.port # ClosedPort)
    IN [i \in 1..Len(open) |-> open[i].mid]

\* The text that lists mids separated by single spaces.
JoinMids(mids) ==
    [i \in 1..(2 * Len(mids) - 1) |-> IF i % 2 = 1 THEN mids[(i + 1) \div 2] ELSE " "]

\* C1: in every reachable state the bundle list of the document is exactly the
\* mids of the sections that are not closed, in ascending index order.
C1_BundleListsNonClosedMids ==
    remoteSdp.bundleMids = JoinMids(NonClosedMids)

\* C1 witness: a document whose second section is closed and whose bundle
\* list holds the mid of the first, open, section only.
C1_Witness ==
    /\ Len(remoteSdp.mediaSections) = 2
    /\ remoteSdp.mediaSections[2].port = ClosedPort
    /\ remoteSdp.mediaSections[1].port # ClosedPort
    /\ remoteSdp.bundleMids = <<remoteSdp.mediaSections[1].mid>>

\* C2 (as claimed): the first section ever added never has port 0.
C2_AnchorNeverClosed ==
    remoteSdp.mediaSections # <<>> => remoteSdp.mediaSections[1].port # ClosedPort

\* The 0-based indices of the closed sections.
ClosedIndices ==
    {i \in 0..(Len(remoteSdp.mediaSections) - 1) :
        remoteSdp.mediaSections[i + 1].port = ClosedPort}

\* C3: GetNextMediaSectionIdx returns the lowest index of a closed section
\* together with the mid of the section in that slot, and when no section is
\* closed the current section count with an empty reuseMid.
C3_NextIdxIsLowestClosed ==
    LET next == GetNextMediaSectionIdx(remoteSdp) IN
    IF ClosedIndices # {}
    THEN /\ next.idx \in ClosedIndices
         /\ \A i \in ClosedIndices : next.idx <= i
         /\ next.reuseMid = remoteSdp.mediaSections[next.idx + 1].mid
    ELSE /\ next.idx = Len(remoteSdp.mediaSections)
         /\ next.reuseMid = ""

\* C3 witness: a closed section that is not the first one, so that the scan
\* has to pass an open section before it finds the slot.
C3_Witness ==
    /\ ClosedIndices # {}
    /\ 0 \notin ClosedIndices
    /\ GetNextMediaSectionIdx(remoteSdp).reuseMid # ""

DataChannelOps == {"SendDataChannel", "ReceiveDataChannel"}

\* C4: the k-th data-channel request gets stream id (k - 1) mod 1024, the next
\* id stays in 0..1023, and it is what the requests made so far determine:
\* no other operation changes it.
C4_StreamIdsCycle ==
    /\ nextSendSctpStreamId \in 0..(SctpNumStreamsMis - 1)
    /\ nextSendSctpStreamId = allocated % SctpNumStreamsMis
    /\ last.op \in DataChannelOps =>
           /\ allocated >= 1
           /\ last.streamId = (allocated - 1) % SctpNumStreamsMis
           /\ last.localId = to_string(last.streamId)

\* C4 witness: the request after the 1024th got id 0 again, with a stopped
\* producer or consumer in the document.
C4_Witness ==
    /\ allocated = SctpNumStreamsMis + 1
    /\ last.op \in DataChannelOps
    /\ last.result = "ok"
    /\ last.streamId = 0
    /\ \E i \in 1..Len(remoteSdp.mediaSections) :
           remoteSdp.mediaSections[i].direction = "inactive"

\* C5: every text GetSdp writes carries a session-version strictly greater
\* than the one before it, whatever method asked for it.
C5_VersionsIncrease ==
    \A i \in 1..Len(emitted) : \A j \in 1..Len(emitted) :
        i < j => emitted[i] < emitted[j]

\* C5 witness: three texts were written, the last one by a method that failed.
C5_Witness ==
    /\ Len(emitted) = 3
    /\ last.result = "error"
    /\ emitted[3] = remoteSdp.sessionVersion

\* C6: a Send that fails at the engine's CreateOffer or SetLocalDescription,
\* after the transceiver was added, adds nothing to midToIndex or to the
\* sections nor to mapMidTransceiver, and leaves the added transceiver
\* inactive and without track.
C6_FailedSendUndone ==
    [][(last'.op = "Send" /\ last'.failAt \in {"CreateOffer", "SetLocalDescription"}) =>
          /\ remoteSdp'.midToIndex = remoteSdp.midToIndex
          /\ remoteSdp'.mediaSections = remoteSdp.mediaSections
          /\ mapMidTransceiver' = mapMidTransceiver
          /\ Len(pc'.transceivers) = Len(pc.transceivers) + 1
          /\ pc'.transceivers[Len(pc'.transceivers)].direction = "inactive"
          /\ ~pc'.transceivers[Len(pc'.transceivers)].hasTrack]_vars

\* C6 witness: a Send failed at SetLocalDescription on a handler that already
\* has a producer in its map and a section in its document.
C6_Witness ==
    /\ last.op = "Send"
    /\ last.failAt = "SetLocalDescription"
    /\ Len(pc.transceivers) = 2
    /\ Cardinality(DOMAIN mapMidTransceiver) = 1
    /\ Len(remoteSdp.mediaSections) = 1

\* C7 (as claimed): a method that fails leaves the sections, the DTLS role,
\* the bundle list and midToIndex as they were before the call.
C7_FailedMethodChangesNothing ==
    [][last'.result = "error" =>
          /\ remoteSdp'.mediaSections = remoteSdp.mediaSections
          /\ remoteSdp'.dtlsRole = remoteSdp.dtlsRole
          /\ remoteSdp'.bundleMids = remoteSdp.bundleMids
          /\ remoteSdp'.midToIndex = remoteSdp.midToIndex]_vars

\* C8 (as claimed): after a Send that failed at any engine call past
\* AddTransceiver, the added transceiver is inactive and has no track.
C8_FailedSendAlwaysRolledBack ==
    (last.op = "Send" /\ last.result = "error" /\ last.failAt # "AddTransceiver") =>
        /\ pc.transceivers[Len(pc.transceivers)].direction = "inactive"
        /\ ~pc.transceivers[Len(pc.transceivers)].hasTrack

\* C9: a Send without a track ends in a type error before any engine call and
\* changes neither the engine, the document (its version included), the maps
\* nor transportReady.
C9_MissingTrackRejected ==
    [][(last'.op = "Send" /\ last'.result = "typeError") =>
          /\ last'.calls = <<>>
          /\ UNCHANGED <<remoteSdp, pc, mapMidTransceiver, transportReady, emitted,
                         hasDataChannelMediaSection, nextSendSctpStreamId,
                         sendingRtpParameters>>]_vars

\* C9 witness: the type error on a handler that has a producer and a document
\* with a reusable slot.
C9_Witness ==
    /\ last.op = "Send"
    /\ last.result = "typeError"
    /\ mapMidTransceiver # EmptyMap
    /\ ClosedIndices # {}

LookupOps ==
    {"StopSending", "ReplaceTrack", "SetMaxSpatialLayer", "GetSenderStats",
     "StopReceiving", "GetReceiverStats"}

\* C10: each of the six methods that take a localId, called with one that
\* mapMidTransceiver does not hold, ends in an error before any engine call
\* and changes neither the document (its version included) nor the engine.
C10_UnknownLocalIdRejected ==
    [][(last'.op \in LookupOps /\ last'.localId \notin DOMAIN mapMidTransceiver) =>
          /\ last'.result = "error"
          /\ last'.calls = <<>>
          /\ UNCHANGED <<remoteSdp, pc, mapMidTransceiver, transportReady, emitted,
                         sendingRtpParameters>>]_vars

\* C10 witness: the lookup of SetMaxSpatialLayer failed on a handler whose map
\* holds another localId.
C10_Witness ==
    /\ last.op = "SetMaxSpatialLayer"
    /\ last.localId = UnknownId
    /\ last.result = "error"
    /\ mapMidTransceiver # EmptyMap

\* C11 (as claimed): a method during which an engine call reported a failure,
\* the setting of a transceiver's direction included, ends in an error.
C11_NoEngineErrorSwallowed ==
    last.reported # {} => last.result = "error"

\* The section identifiers and their positions agree one to one.
RegistryIsOneToOne ==
    /\ DOMAIN remoteSdp.midToIndex =
           {remoteSdp.mediaSections[i].mid : i \in 1..Len(remoteSdp.mediaSections)}
    /\ \A mid \in DOMAIN remoteSdp.midToIndex :
           /\ remoteSdp.midToIndex[mid] \in 0..(Len(remoteSdp.mediaSections) - 1)
           /\ remoteSdp.mediaSections[remoteSdp.midToIndex[mid] + 1].mid = mid
    /\ \A i \in 1..Len(remoteSdp.mediaSections) :
           remoteSdp.midToIndex[remoteSdp.mediaSections[i].mid] = i - 1

\* C12 (as claimed): in every state a step leads to, midToIndex is a
\* one-to-one association between the mids of the sections and the indices
\* 0..n-1, and no step makes the sections fewer.
C12_RegistryOneToOne ==
    [][/\ RegistryIsOneToOne'
       /\ Len(remoteSdp'.mediaSections) >= Len(remoteSdp.mediaSections)]_vars

\* A Send that got as far as writing the encodings of its RTP parameters.
SendWroteEncodings ==
    last.op = "Send" /\ last.failAt \in {"none", "SetRemoteDescription"}

\* The encoding out carries the members the caller set in given, the rid
\* aside, under their JSON names, and none of those the caller left unset.
CallerMembersIn(out, given) ==
    /\ out.active = given.active
    /\ out.networkPriority = given.network_priority
    /\ "maxBitrate" \in DOMAIN out <=> "max_bitrate_bps" \in DOMAIN given
    /\ "max_bitrate_bps" \in DOMAIN given => out.maxBitrate = given.max_bitrate_bps
    /\ "maxFramerate" \in DOMAIN out <=> "max_framerate" \in DOMAIN given
    /\ "max_framerate" \in DOMAIN given => out.maxFramerate = given.max_framerate
    /\ "scaleResolutionDownBy" \in DOMAIN out
           <=> "scale_resolution_down_by" \in DOMAIN given
    /\ "scale_resolution_down_by" \in DOMAIN given =>
           out.scaleResolutionDownBy = given.scale_resolution_down_by

\* C13 (as claimed): given n > 1 encodings, Send names the i-th (0-based, in
\* the caller's order) "r" followed by i; given none or one it assigns no rid.
C13_RidsNumberTheEncodings ==
    SendWroteEncodings =>
        LET given == last.arg
            out == sendingRtpParameters.encodings
        IN IF Len(given) > 1
           THEN /\ Len(out) = Len(given)
                /\ \A i \in 1..Len(given) :
                       /\ out[i].rid = "r" \o to_string(i - 1)
                       /\ CallerMembersIn(out[i], given[i])
           ELSE /\ Len(out) = 1
                /\ IF given = <<>> \/ given[1].rid = ""
                   THEN "rid" \notin DOMAIN out[1]
                   ELSE out[1].rid = given[1].rid

\* C14: given exactly one encoding, the encodings Send writes are the
\* engine's, with the members the caller set laid over the first one: the
\* engine's ssrc stays and the caller's maxBitrate appears as given.
C14_OneEncodingMerged ==
    (SendWroteEncodings /\ Len(last.arg) = 1) =>
        LET given == last.arg[1]
            engine == getRtpEncodings([mid |-> last.localId])
            out == sendingRtpParameters.encodings
        IN /\ Len(out) = Len(engine)
           /\ \A i \in 2..Len(out) : out[i] = engine[i]
           /\ \A k \in DOMAIN engine[1] : k \in DOMAIN out[1] /\ out[1][k] = engine[1][k]
           /\ CallerMembersIn(out[1], given)
           /\ "rid" \in DOMAIN out[1] <=> given.rid # ""
           /\ given.rid # "" => out[1].rid = given.rid

\* C14 witness: Send was given one encoding capped at 500000 and wrote one
\* encoding with the engine's ssrc and that maxBitrate.
C14_Witness ==
    /\ SendWroteEncodings
    /\ last.result = "ok"
    /\ last.arg = <<CappedEncoding>>
    /\ "ssrc" \in DOMAIN sendingRtpParameters.encodings[1]
    /\ sendingRtpParameters.encodings[1].maxBitrate = 500000

\* C15: given no encodings, the encodings Send writes are exactly the
\* engine's; given more than one, they are the caller's, as many and in the
\* same order, with nothing of the engine's in them.
C15_NoneOrManyEncodings ==
    SendWroteEncodings =>
        LET given == last.arg
            engine == getRtpEncodings([mid |-> last.localId])
            out == sendingRtpParameters.encodings
        IN /\ given = <<>> => out = engine
           /\ Len(given) > 1 =>
                  /\ Len(out) = Len(given)
                  /\ \A i \in 1..Len(given) :
                         /\ CallerMembersIn(out[i], given[i])
                         /\ DOMAIN out[i] \cap DOMAIN engine[1] = {}

\* C15 witness: Send was given three encodings and wrote three, the first
\* with the frame rate and the second with the bitrate the caller set.
C15_Witness ==
    /\ SendWroteEncodings
    /\ last.result = "ok"
    /\ last.arg = <<ScaledEncoding, CappedEncoding, DefaultEncoding>>
    /\ Len(sendingRtpParameters.encodings) = 3
    /\ sendingRtpParameters.encodings[1].maxFramerate = 30
    /\ sendingRtpParameters.encodings[2].maxBitrate = 500000

\* Two characters that are the same letter, whatever their case.
SameLetter(a, b) ==
    \/ a = b
    \/ \E i \in 1..Len(UpperCase) : {a, b} = {UpperCase[i], LowerCase[i]}

\* The mimeType is name, compared without regard to case.
IsMimeType(mimeType, name) ==
    /\ Len(mimeType) = Len(name)
    /\ \A i \in 1..Len(name) : SameLetter(mimeType[i], name[i])

\* C16: after a successful Send every encoding written carries
\* scalabilityMode S1T3 if and only if the first codec is video/VP8 or
\* video/H264, in any case, and more than one encoding was written.
C16_ScalabilityModeStamped ==
    (last.op = "Send" /\ last.result = "ok") =>
        LET out == sendingRtpParameters.encodings
            simulcast ==
                /\ Len(out) > 1
                /\ \/ IsMimeType(sendingRtpParameters.mimeType, VideoVP8)
                   \/ IsMimeType(sendingRtpParameters.mimeType,
                                 <<"v", "i", "d", "e", "o", "/", "H", "2", "6", "4">>)
        IN \A i \in 1..Len(out) :
               IF simulcast
               THEN "scalabilityMode" \in DOMAIN out[i] /\ out[i].scalabilityMode = "S1T3"
               ELSE "scalabilityMode" \notin DOMAIN out[i]

\* C16 witness: a handler whose first codec is written VIDEO/vp8 sent two
\* encodings and both carry S1T3.
C16_Witness ==
    /\ last.op = "Send"
    /\ last.result = "ok"
    /\ sendingRtpParameters.mimeType # ToLowerCase(sendingRtpParameters.mimeType)
    /\ Len(sendingRtpParameters.encodings) = 2
    /\ "scalabilityMode" \in DOMAIN sendingRtpParameters.encodings[2]
    /\ sendingRtpParameters.encodings[2].scalabilityMode = "S1T3"

\* C17: a successful SetMaxSpatialLayer with k in 1..3 sets the active flag of
\* every encoding the sender has among the first three to "its 0-based index
\* is below k" and leaves the others, and every other sender, as they were.
C17_SpatialLayersActivated ==
    [][(last'.op = "SetMaxSpatialLayer" /\ last'.result = "ok"
        /\ last'.arg \in 1..3) =>
          LET transceiver == mapMidTransceiver[last'.localId]
              old == pc.transceivers[transceiver].encodings
              new == pc'.transceivers[transceiver].encodings
          IN /\ Len(new) = Len(old)
             /\ \A i \in 1..Len(old) :
                    new[i] = (IF i <= 3 THEN i - 1 < last'.arg ELSE old[i])
             /\ \A other \in 1..Len(pc.transceivers) :
                    other # transceiver => pc'.transceivers[other] = pc.transceivers[other]]_vars

\* C17 witness: layer count 2 on a sender with two encodings, the first of
\* which the caller gave as inactive: the call succeeded and both are active.
C17_Witness ==
    /\ last.op = "SetMaxSpatialLayer"
    /\ last.result = "ok"
    /\ last.arg = 2
    /\ last.localId \in DOMAIN mapMidTransceiver
    /\ pc.transceivers[mapMidTransceiver[last.localId]].encodings = <<TRUE, TRUE>>
    /\ Len(sendingRtpParameters.encodings) = 2
    /\ ~sendingRtpParameters.encodings[1].active

\* The setup attribute the role r asks of a section of the given variant.
SetupFor(variant, r) ==
    IF variant = "offer" \/ r = "auto" THEN "actpass"
    ELSE IF r = "client" THEN "active" ELSE "passive"

\* C18: on every document the handler reaches, UpdateIceParameters(p) and
\* UpdateDtlsRole(r) put the value on every section and leave the media array
\* equal to the sections, and applying either a second time changes nothing;
\* and every section of a reachable document carries the ICE parameters and
\* the role the document was last given.
C18_UpdatesReachEverySection ==
    /\ \A p \in IceParameterSets :
           LET once == UpdateIceParameters(remoteSdp, p) IN
           /\ once.iceParameters = p
           /\ Len(once.mediaSections) = Len(remoteSdp.mediaSections)
           /\ Len(once.media) = Len(once.mediaSections)
           /\ \A i \in 1..Len(once.mediaSections) :
                  /\ once.mediaSections[i].iceUfrag = p.usernameFragment
                  /\ once.mediaSections[i].icePwd = p.password
                  /\ once.media[i] = once.mediaSections[i]
           /\ UpdateIceParameters(once, p) = once
    /\ \A r \in DtlsRoles :
           LET once == UpdateDtlsRole(remoteSdp, r) IN
           /\ once.dtlsRole = r
           /\ Len(once.mediaSections) = Len(remoteSdp.mediaSections)
           /\ Len(once.media) = Len(once.mediaSections)
           /\ \A i \in 1..Len(once.mediaSections) :
                  /\ once.mediaSections[i].setup
                         = SetupFor(once.mediaSections[i].variant, r)
                  /\ once.media[i] = once.mediaSections[i]
           /\ UpdateDtlsRole(once, r) = once
    /\ \A i \in 1..Len(remoteSdp.mediaSections) :
           /\ remoteSdp.mediaSections[i].iceUfrag = remoteSdp.iceParameters.usernameFragment
           /\ remoteSdp.mediaSections[i].icePwd = remoteSdp.iceParameters.password
           /\ remoteSdp.mediaSections[i].setup
                  = SetupFor(remoteSdp.mediaSections[i].variant, remoteSdp.dtlsRole)

\* C18 witness: RestartIce gave a document of two sections, one of them an
\* answer, the parameters u2/p2 after the transport had taken the role client.
C18_Witness ==
    /\ last.op = "RestartIce"
    /\ last.result = "ok"
    /\ Len(remoteSdp.mediaSections) = 2
    /\ remoteSdp.dtlsRole = "client"
    /\ remoteSdp.iceParameters.usernameFragment = "u2"
    /\ \E i \in 1..2 : remoteSdp.mediaSections[i].variant = "answer"
    /\ \A i \in 1..2 : /\ remoteSdp.mediaSections[i].iceUfrag = "u2"
                        /\ remoteSdp.media[i] = remoteSdp.mediaSections[i]

\* C19: every offer section of every reachable document has setup actpass,
\* whatever the document's role, and SetDtlsRole with any role leaves it so.
C19_OffersStayActpass ==
    \A i \in 1..Len(remoteSdp.mediaSections) :
        LET s == remoteSdp.mediaSections[i] IN
        s.variant = "offer" =>
            /\ s.setup = "actpass"
            /\ remoteSdp.media[i].setup = "actpass"
            /\ \A r \in DtlsRoles :
                   /\ SetDtlsRole(s, r).setup = "actpass"
                   /\ UpdateDtlsRole(remoteSdp, r).mediaSections[i].setup = "actpass"

\* C19 witness: the document of a receiving handler holds an offer section
\* with actpass after the transport was set up and the role became server
\* or client.
C19_Witness ==
    /\ handlerKind = "recv"
    /\ transportReady
    /\ remoteSdp.dtlsRole # "auto"
    /\ \E i \in 1..Len(remoteSdp.mediaSections) :
           /\ remoteSdp.mediaSections[i].variant = "offer"
           /\ ~IsClosed(remoteSdp.mediaSections[i])
           /\ remoteSdp.mediaSections[i].setup = "actpass"

\* C20: the local identifier of a Receive is the caller's mid when
\* rtpParameters has one that is a string and not empty, and otherwise the
\* decimal number of associations the handler tracks when it is called; it
\* is the mid of the section added and, on success, of the new association.
C20_ReceiveLocalId ==
    [][last'.op = "Receive" =>
          /\ last'.localId =
                 (IF last'.arg.type = "string" /\ last'.arg.value # ""
                  THEN last'.arg.value
                  ELSE to_string(Cardinality(DOMAIN mapMidTransceiver)))
          /\ Len(remoteSdp'.mediaSections) = Len(remoteSdp.mediaSections) + 1
          /\ remoteSdp'.mediaSections[Len(remoteSdp'.mediaSections)].mid = last'.localId
          /\ last'.result = "ok" => last'.localId \in DOMAIN mapMidTransceiver']_vars

\* C20 witness: with one association tracked, a Receive whose mid is a
\* number succeeded under the local identifier "1".
C20_Witness ==
    /\ last.op = "Receive"
    /\ last.result = "ok"
    /\ last.arg = MidNumber
    /\ last.localId = "1"
    /\ DOMAIN mapMidTransceiver = {"a", "1"}

\* The engine calls named are made, in this order, among the calls.
InOrder(calls, names) ==
    \E pos \in [1..Len(names) -> 1..Len(calls)] :
        /\ \A i \in 1..Len(names) : calls[pos[i]] = names[i]
        /\ \A i \in 1..(Len(names) - 1) : pos[i] < pos[i + 1]

Made(calls, name) == \E i \in 1..Len(calls) : calls[i] = name

\* C21: a Send that got its offer from the engine while the transport was not
\* ready sets the transport up with local role server (the document's role
\* becomes client) right after CreateOffer and before SetLocalDescription; if
\* the callback fails the Send fails, neither description is given to the
\* engine and transportReady stays false.  A Send on a ready transport does
\* not set it up again.
C21_SendSetsUpTransport ==
    [][(last'.op = "Send" /\ Made(last'.calls, "CreateOffer")
        /\ last'.failAt # "CreateOffer") =>
          IF transportReady
          THEN /\ ~Made(last'.calls, "OnConnect")
               /\ remoteSdp'.dtlsRole = remoteSdp.dtlsRole
               /\ transportReady'
          ELSE /\ InOrder(last'.calls, <<"AddTransceiver", "CreateOffer", "OnConnect">>)
               /\ Made(last'.calls, "SetLocalDescription") =>
                      InOrder(last'.calls, <<"OnConnect", "SetLocalDescription">>)
               /\ remoteSdp'.dtlsRole = "client"
               /\ IF last'.failAt = "OnConnect"
                  THEN /\ last'.result = "error"
                       /\ ~Made(last'.calls, "SetLocalDescription")
                       /\ ~Made(last'.calls, "SetRemoteDescription")
                       /\ emitted' = emitted
                       /\ ~transportReady'
                  ELSE transportReady']_vars

\* C21 witness: a Send failed in the callback of SetupTransport: the
\* document's role is client, the transport is not ready and nothing was
\* written for the engine.
C21_Witness ==
    /\ last.op = "Send"
    /\ last.failAt = "OnConnect"
    /\ last.result = "error"
    /\ remoteSdp.dtlsRole = "client"
    /\ ~transportReady
    /\ emitted = <<>>

\* C22: a successful Receive has added the offer section and written the
\* document, then made SetRemoteDescription, CreateAnswer, the transport
\* set-up with local role client if the transport was not ready,
\* SetLocalDescription and the search of the transceiver, in this order, and
\* has recorded the association; a Receive that fails records none.
C22_ReceiveOrder ==
    [][last'.op = "Receive" =>
          /\ Len(emitted') = Len(emitted) + 1
          /\ LET added == remoteSdp'.mediaSections[Len(remoteSdp'.mediaSections)] IN
                 /\ Len(remoteSdp'.mediaSections) = Len(remoteSdp.mediaSections) + 1
                 /\ added.variant = "offer"
                 /\ added.mid = last'.localId
          /\ last'.calls[1] = "SetRemoteDescription"
          /\ IF last'.result = "ok"
             THEN /\ last'.calls =
                         <<"SetRemoteDescription", "CreateAnswer">>
                         \o (IF transportReady THEN <<>> ELSE <<"OnConnect">>)
                         \o <<"SetLocalDescription", "transceiver">>
                  /\ ~transportReady => remoteSdp'.dtlsRole = "server"
                  /\ transportReady'
                  /\ last'.localId \in DOMAIN mapMidTransceiver'
                  /\ pc'.transceivers[mapMidTransceiver'[last'.localId]].mid = last'.localId
             ELSE mapMidTransceiver' = mapMidTransceiver]_vars

\* C22 witness: the first Receive of a handler succeeded with the five calls
\* and the association is recorded.
C22_Witness ==
    /\ last.op = "Receive"
    /\ last.result = "ok"
    /\ Len(last.calls) = 5
    /\ last.calls[3] = "OnConnect"
    /\ remoteSdp.dtlsRole = "server"
    /\ last.localId \in DOMAIN mapMidTransceiver

\* C23: a successful Send has made AddTransceiver, CreateOffer,
\* SetLocalDescription, the read of the transceiver's mid and
\* SetRemoteDescription in this order; the association is recorded under the
\* mid read after SetLocalDescription, which is the identifier returned, and
\* a Send whose SetRemoteDescription fails records none.
C23_SendOrder ==
    [][last'.op = "Send" =>
          /\ last'.result = "ok" =>
                 /\ InOrder(last'.calls,
                            <<"AddTransceiver", "CreateOffer", "SetLocalDescription",
                              "mid", "SetRemoteDescription">>)
                 /\ Len(last'.calls) = IF transportReady THEN 5 ELSE 6
                 /\ DOMAIN mapMidTransceiver' = DOMAIN mapMidTransceiver \cup {last'.localId}
                 /\ mapMidTransceiver'[last'.localId] = Len(pc'.transceivers)
                 /\ pc'.transceivers[Len(pc'.transceivers)].mid = last'.localId
                 /\ sendingRtpParameters'.mid = last'.localId
          /\ last'.result # "ok" => mapMidTransceiver' = mapMidTransceiver]_vars

\* C23 witness: the second Send of a handler succeeded with five calls; it
\* returned "1", the mid of the second transceiver, and recorded it.
C23_Witness ==
    /\ last.op = "Send"
    /\ last.result = "ok"
    /\ last.calls = <<"AddTransceiver", "CreateOffer", "SetLocalDescription", "mid",
                      "SetRemoteDescription">>
    /\ last.localId = "1"
    /\ Len(pc.transceivers) = 2
    /\ pc.transceivers[2].mid = "1"
    /\ mapMidTransceiver["1"] = 2

\* C24: the document's fingerprint is the last entry of the list of
\* fingerprints it was constructed with, whatever the algorithms of the
\* entries, and nothing done to the document afterwards changes it.
C24_LastFingerprintTaken ==
    LET offered == remoteSdp.fingerprints IN
    /\ offered # <<>>
    /\ remoteSdp.fingerprint.type = offered[Len(offered)].algorithm
    /\ remoteSdp.fingerprint.hash = offered[Len(offered)].value

\* C24 witness: a document constructed with sha-512, sha-256 and sha-1
\* fingerprints, in this order, carries the sha-1 one.
C24_Witness ==
    /\ last.op = "new"
    /\ Len(remoteSdp.fingerprints) = 3
    /\ remoteSdp.fingerprints[1].algorithm = "sha-512"
    /\ remoteSdp.fingerprints[2].algorithm = "sha-256"
    /\ remoteSdp.fingerprint = [type |-> "sha-1", hash |-> "A1"]

\* C25 (as claimed): a document just constructed has the ICE-lite flag if and
\* only if the ICE parameters it was given say that the server is ICE-lite.
C25_IceLiteIffDeclared ==
    last.op = "new" =>
        (remoteSdp.icelite <=> remoteSdp.iceParameters.iceLite = "true")

\* The step is a Send, a Receive or the opening of the first data channel
\* that built a section.
BuiltSection ==
    \/ last'.op = "Send" /\ last'.failAt \in {"none", "SetRemoteDescription"}
    \/ last'.op = "Receive"
    \/ /\ last'.op = "SendDataChannel"
       /\ ~hasDataChannelMediaSection
       /\ last'.failAt \in {"none", "SetRemoteDescription"}
    \/ last'.op = "ReceiveDataChannel" /\ ~hasDataChannelMediaSection

\* C26 (as claimed): a Send, a Receive or the opening of the first data
\* channel puts the section it builds at the index GetNextMediaSectionIdx
\* gives when it is called: the lowest closed one when a section is closed,
\* so that the document does not grow, and the end of the document otherwise.
C26_BuiltInNextSlot ==
    [][BuiltSection =>
          LET slot == GetNextMediaSectionIdx(remoteSdp)
              old == remoteSdp.mediaSections
              new == remoteSdp'.mediaSections
          IN /\ Len(new) = (IF slot.idx < Len(old) THEN Len(old) ELSE Len(old) + 1)
             /\ ~IsClosed(new[slot.idx + 1])
             /\ IF last'.op \in {"Send", "Receive"}
                THEN new[slot.idx + 1].mid = last'.localId
                ELSE new[slot.idx + 1].type = "application"]_vars

\* C27: a successful Send made while a section is closed puts its answer
\* section in place of the lowest closed one: as many sections as before, the
\* old mid gone from the map and the new one mapped to that index, the other
\* sections and map entries as they were and the bundle mids regenerated.
\* With no closed section the answer section is appended and mapped to the
\* previous number of sections.
C27_SendReplacesClosedSection ==
    [][(last'.op = "Send" /\ last'.result = "ok") =>
          LET slot == GetNextMediaSectionIdx(remoteSdp)
              old == remoteSdp.mediaSections
              new == remoteSdp'.mediaSections
              localId == last'.localId
          IN /\ new[slot.idx + 1].mid = localId
             /\ new[slot.idx + 1].variant = "answer"
             /\ ~IsClosed(new[slot.idx + 1])
             /\ remoteSdp'.midToIndex[localId] = slot.idx
             /\ remoteSdp'.media = new
             /\ (remoteSdp.bundleMids = JoinMids(NonClosedMids))'
             /\ IF \E i \in 1..Len(old) : IsClosed(old[i])
                THEN /\ IsClosed(old[slot.idx + 1])
                     /\ \A i \in 1..slot.idx : ~IsClosed(old[i])
                     /\ Len(new) = Len(old)
                     /\ DOMAIN remoteSdp'.midToIndex =
                            (DOMAIN remoteSdp.midToIndex \ {old[slot.idx + 1].mid})
                                \cup {localId}
                     /\ old[slot.idx + 1].mid # localId
                     /\ \A i \in 1..Len(old) : i # slot.idx + 1 => new[i] = old[i]
                ELSE /\ slot.idx = Len(old)
                     /\ Len(new) = Len(old) + 1
                     /\ DOMAIN remoteSdp'.midToIndex =
                            DOMAIN remoteSdp.midToIndex \cup {localId}
                     /\ \A i \in 1..Len(old) :
                            new[i] = (IF transportReady THEN old[i]
                                      ELSE SetDtlsRole(old[i], "client"))
             /\ \A mid \in DOMAIN remoteSdp'.midToIndex \ {localId} :
                    remoteSdp'.midToIndex[mid] = remoteSdp.midToIndex[mid]]_vars

\* C27 witness: the third Send of a handler succeeded after the second
\* producer was stopped: the document still has two sections, the second is
\* now "2" and open, and "1" is gone from the map.
C27_Witness ==
    /\ last.op = "Send"
    /\ last.result = "ok"
    /\ last.localId = "2"
    /\ Len(pc.transceivers) = 3
    /\ Len(remoteSdp.mediaSections) = 2
    /\ remoteSdp.mediaSections[2].mid = "2"
    /\ ~IsClosed(remoteSdp.mediaSections[2])
    /\ DOMAIN remoteSdp.midToIndex = {"0", "2"}
    /\ remoteSdp.midToIndex["2"] = 1

\* What the operations on a section make of the section s.
Operated(s) ==
    {SetIceParameters(s, p) : p \in IceParameterSets}
        \cup {SetDtlsRole(s, r) : r \in DtlsRoles}
        \cup {DisableSection(s), CloseSection(s)}

\* C28: a section never goes back in Open -> Disabled -> Closed.  No
\* operation on a closed section of a reachable document gives a section
\* that is not closed, and none on an inactive one gives a section that is
\* not inactive; and in every step a slot that held a closed section holds a
\* closed section afterwards, and one that held an inactive section an
\* inactive one, unless a Send put a new section with another mid in the
\* slot, which it does only to the lowest closed one.
C28_SectionsNeverReopen ==
    [][/\ Len(remoteSdp'.mediaSections) >= Len(remoteSdp.mediaSections)
       /\ \A i \in 1..Len(remoteSdp.mediaSections) :
              LET old == remoteSdp.mediaSections[i]
                  new == remoteSdp'.mediaSections[i]
                  replaced == new.mid # old.mid
              IN /\ IsClosed(old) => \A s \in Operated(old) : IsClosed(s)
                 /\ old.direction = "inactive" =>
                        \A s \in Operated(old) : s.direction = "inactive"
                 /\ IsClosed(old) /\ ~replaced => IsClosed(new)
                 /\ old.direction = "inactive" /\ ~replaced =>
                        new.direction = "inactive"
                 /\ replaced =>
                        /\ last'.op = "Send"
                        /\ IsClosed(old)
                        /\ i = GetNextMediaSectionIdx(remoteSdp).idx + 1]_vars

\* C28 witness: RestartIce gave new ICE parameters to a document whose
\* second section is closed, and the section has them and is still closed
\* and inactive.
C28_Witness ==
    /\ last.op = "RestartIce"
    /\ last.result = "ok"
    /\ transportReady
    /\ Len(remoteSdp.mediaSections) = 2
    /\ IsClosed(remoteSdp.mediaSections[2])
    /\ remoteSdp.mediaSections[2].direction = "inactive"
    /\ remoteSdp.mediaSections[2].iceUfrag = "u2"
    /\ remoteSdp.iceParameters.usernameFragment = "u2"

\* a=setup of an answer for each role of the remote side.
RoleSetup == [client |-> "active", server |-> "passive", auto |-> "actpass"]

\* C29: every answer section of a reachable document, and its entry in the
\* media array, has the setup RoleSetup gives for the document's role; after
\* UpdateDtlsRole with any of the three roles every answer section has the
\* setup of the new role, and so has an answer section constructed from the
\* document afterwards.
C29_AnswersFollowRole ==
    /\ remoteSdp.dtlsRole \in DOMAIN RoleSetup
    /\ \A i \in 1..Len(remoteSdp.mediaSections) :
           remoteSdp.mediaSections[i].variant = "answer" =>
               /\ remoteSdp.mediaSections[i].setup = RoleSetup[remoteSdp.dtlsRole]
               /\ remoteSdp.media[i].setup = RoleSetup[remoteSdp.dtlsRole]
    /\ \A role \in DOMAIN RoleSetup :
           LET updated == UpdateDtlsRole(remoteSdp, role)
               created == AnswerMediaSection(
                              updated.iceParameters, updated.dtlsRole,
                              [mid |-> "9", type |-> "video",
                               extmapAllowMixed |-> FALSE, simulcast |-> FALSE,
                               ext |-> DefaultLocalExts],
                              [headerExtensions |-> DefaultHeaderExtensions])
           IN /\ created.setup = RoleSetup[role]
              /\ \A i \in 1..Len(updated.mediaSections) :
                     updated.mediaSections[i].variant = "answer" =>
                         /\ updated.mediaSections[i].setup = RoleSetup[role]
                         /\ updated.media[i].setup = RoleSetup[role]

\* C29 witness: after the transport was set up with local role server, a
\* second Send succeeded: both answer sections have setup active, and
\* UpdateDtlsRole("server") would make both passive.
C29_Witness ==
    /\ handlerKind = "send"
    /\ last.op = "Send"
    /\ last.result = "ok"
    /\ remoteSdp.dtlsRole = "client"
    /\ Len(remoteSdp.mediaSections) = 2
    /\ \A i \in 1..2 :
           /\ remoteSdp.mediaSections[i].variant = "answer"
           /\ remoteSdp.mediaSections[i].setup = "active"
           /\ UpdateDtlsRole(remoteSdp, "server").mediaSections[i].setup = "passive"

\* C30: the ext of an audio or video answer section that has one holds, for
\* each header extension of the answer side whose uri is the uri of an entry
\* of the ext of the engine's offer for that mid, its uri and its id, in the
\* order of the answer side, and nothing else.
C30_AnswerExtIsIntersection ==
    \A i \in 1..Len(remoteSdp.mediaSections) :
        LET s == remoteSdp.mediaSections[i] IN
        (s.variant = "answer" /\ s.type \in Kinds /\ "ext" \in s.opt) =>
            \E t \in 1..Len(pc.transceivers) :
                /\ pc.transceivers[t].mid = s.mid
                /\ LET offered == {pc.transceivers[t].ext[j].uri :
                                       j \in 1..Len(pc.transceivers[t].ext)}
                       common == SelectSeq(sendingRemoteRtpParameters.headerExtensions,
                                           LAMBDA e : e.uri \in offered)
                   IN /\ Len(s.ext) = Len(common)
                      /\ \A k \in 1..Len(common) :
                             /\ s.ext[k].uri = common[k].uri
                             /\ s.ext[k].value = common[k].id

\* C30 witness: the answer side has video-orientation then mid, the engine
\* offered mid, abs-send-time (and video-orientation in capitals at most):
\* the section carries mid alone, with the id of the answer side.
C30_Witness ==
    /\ last.op = "Send"
    /\ last.result = "ok"
    /\ sendingRemoteRtpParameters.headerExtensions =
           <<[uri |-> "urn:video-orientation", id |-> 11], [uri |-> "urn:mid", id |-> 1]>>
    /\ pc.transceivers[1].ext =
           <<[uri |-> "URN:VIDEO-ORIENTATION", value |-> 5], [uri |-> "urn:mid", value |-> 2]>>
    /\ remoteSdp.mediaSections[1].ext = <<[uri |-> "urn:mid", value |-> 1]>>

\* C31: a method gives the engine a local description only when the transport
\* is ready: it was ready when the method began, or the method's own set-up of
\* the transport came before SetLocalDescription and its callback succeeded.
\* The callback succeeds only on a transport that was not ready, which is
\* ready from then on: it succeeds at most once.
C31_LocalCommitOnlyWhenReady ==
    [][/\ Made(last'.calls, "SetLocalDescription") =>
              /\ \/ transportReady
                 \/ /\ InOrder(last'.calls, <<"OnConnect", "SetLocalDescription">>)
                    /\ last'.failAt # "OnConnect"
              /\ transportReady'
       /\ (Made(last'.calls, "OnConnect") /\ last'.failAt # "OnConnect") =>
              ~transportReady /\ transportReady'
       /\ ~transportReady => (transportReady' <=> (/\ Made(last'.calls, "OnConnect")
                                                   /\ last'.failAt # "OnConnect"))
       /\ transportReady => transportReady']_vars

\* C31 witness: a StopReceiving, which sets no transport up itself, gave the
\* engine its answer on a transport that an earlier Receive made ready.
C31_Witness ==
    /\ last.op = "StopReceiving"
    /\ Made(last.calls, "SetLocalDescription")
    /\ ~Made(last.calls, "OnConnect")
    /\ transportReady

\* C32 (as claimed): a StopSending or StopReceiving that passed its lookup,
\* and so called CloseMediaSection with the mid of its transceiver, leaves
\* every section with another mid as it was, and leaves every section as it
\* was when midToIndex does not hold that mid.
C32_CloseChangesOnlyItsSection ==
    [][(last'.op \in {"StopSending", "StopReceiving"} /\ last'.failAt # "lookup") =>
          LET mid == pc.transceivers[mapMidTransceiver[last'.localId]].mid IN
          /\ Len(remoteSdp'.mediaSections) = Len(remoteSdp.mediaSections)
          /\ \A i \in 1..Len(remoteSdp.mediaSections) :
                 remoteSdp.mediaSections[i].mid # mid =>
                     remoteSdp'.mediaSections[i] = remoteSdp.mediaSections[i]
          /\ mid \notin DOMAIN remoteSdp.midToIndex =>
                 remoteSdp'.mediaSections = remoteSdp.mediaSections]_vars

\* C33 (as claimed): the media array of the document has one entry for each
\* section, and the entry is what the section holds now.
C33_MediaMirrorsSections ==
    /\ Len(remoteSdp.media) = Len(remoteSdp.mediaSections)
    /\ \A i \in 1..Len(remoteSdp.mediaSections) :
           remoteSdp.media[i] = remoteSdp.mediaSections[i]

\* C34 (as claimed): whatever the data-channel requests did, failed ones
\* included, the document holds at most one application section, and
\* hasDataChannelMediaSection becomes true only in a request that succeeded
\* after both descriptions of the section's round were given to the engine.
C34_OneApplicationSection ==
    [][/\ Cardinality({i \in 1..Len(remoteSdp'.mediaSections) :
                          remoteSdp'.mediaSections[i].type = "application"}) <= 1
       /\ (hasDataChannelMediaSection' /\ ~hasDataChannelMediaSection) =>
              /\ last'.op \in DataChannelOps
              /\ last'.result = "ok"
              /\ Made(last'.calls, "SetLocalDescription")
              /\ Made(last'.calls, "SetRemoteDescription")]_vars

\* C35 (as claimed): the parameters of the codec in the RTP parameters a
\* successful Send returns are the configured ones with that Send's own
\* codecOptions applied; a Send without codecOptions returns the configured
\* parameters, whatever the codecOptions of the Sends before it.
C35_CodecOptionsDoNotLeak ==
    [][(last'.op = "Send" /\ last'.result = "ok") =>
          /\ sendingRtpParameters'.codecParameters =
                 OfferCodecParameters(ConfiguredCodecParameters,
                                      sendingRtpParameters'.mimeType,
                                      last'.codecOptions)
          /\ DOMAIN last'.codecOptions = {} =>
                 sendingRtpParameters'.codecParameters = ConfiguredCodecParameters]_vars

\* C36: after every method each section of the document, closed and disabled
\* ones included, carries the usernameFragment and the password of the
\* document's ICE parameters, which are those the handler was constructed
\* with or those of the last RestartIce: only RestartIce changes them, to the
\* ones it is given.  On a transport that is not ready RestartIce does so
\* too, makes no engine call, writes no text and succeeds.
C36_SectionsCarryLatestIce ==
    [][/\ \A i \in 1..Len(remoteSdp'.mediaSections) :
              /\ remoteSdp'.mediaSections[i].iceUfrag =
                     remoteSdp'.iceParameters.usernameFragment
              /\ remoteSdp'.mediaSections[i].icePwd = remoteSdp'.iceParameters.password
       /\ IF last'.op = "RestartIce"
          THEN /\ remoteSdp'.iceParameters = last'.arg
               /\ ~transportReady =>
                      /\ last'.calls = <<>>
                      /\ last'.result = "ok"
                      /\ emitted' = emitted
                      /\ ~transportReady'
          ELSE remoteSdp'.iceParameters = remoteSdp.iceParameters]_vars

\* C36 witness: a RestartIce with the second set of parameters on a document
\* whose first section is open and whose second is closed: both carry the
\* new usernameFragment and password.
C36_Witness ==
    /\ last.op = "RestartIce"
    /\ last.arg.usernameFragment = "u2"
    /\ Len(remoteSdp.mediaSections) = 2
    /\ ~IsClosed(remoteSdp.mediaSections[1])
    /\ IsClosed(remoteSdp.mediaSections[2])
    /\ \A i \in 1..2 : /\ remoteSdp.mediaSections[i].iceUfrag = "u2"
                        /\ remoteSdp.mediaSections[i].icePwd = "p2"

\* C37: ReplaceTrack, SetMaxSpatialLayer, GetSenderStats, GetReceiverStats
\* and GetTransportStats, whether they return or throw, leave the document
\* (sections, media array, midToIndex, bundle list, session version and the
\* rest of it), mapMidTransceiver, transportReady, the data-channel flag and
\* the next SCTP stream id as they were, and write no text.
C37_QueriesChangeNothing ==
    [][last'.op \in {"ReplaceTrack", "SetMaxSpatialLayer", "GetSenderStats",
                     "GetReceiverStats", "GetTransportStats"} =>
          /\ remoteSdp' = remoteSdp
          /\ mapMidTransceiver' = mapMidTransceiver
          /\ transportReady' = transportReady
          /\ hasDataChannelMediaSection' = hasDataChannelMediaSection
          /\ nextSendSctpStreamId' = nextSendSctpStreamId
          /\ emitted' = emitted]_vars

\* C37 witness: ReplaceTrack took the track away from the sender of the first
\* producer; its answer section is still recvonly, the version is the one of
\* the Send and the association is still there.
C37_Witness ==
    /\ last.op = "ReplaceTrack"
    /\ last.result = "ok"
    /\ last.localId \in DOMAIN mapMidTransceiver
    /\ ~pc.transceivers[mapMidTransceiver[last.localId]].hasTrack
    /\ Len(remoteSdp.mediaSections) = 1
    /\ remoteSdp.mediaSections[1].direction = "recvonly"
    /\ remoteSdp.sessionVersion = 1
    /\ transportReady

\* C38: mapMidTransceiver never loses a localId; a localId enters it only in
\* a Send or Receive that succeeded and returned it; StopSending and
\* StopReceiving leave the map as it is, and a stop of a localId the map
\* holds passes the lookup, whether or not it was stopped before.
C38_AssociationsOnlyGrow ==
    [][/\ DOMAIN mapMidTransceiver \subseteq DOMAIN mapMidTransceiver'
       /\ Cardinality(DOMAIN mapMidTransceiver') >= Cardinality(DOMAIN mapMidTransceiver)
       /\ \A localId \in DOMAIN mapMidTransceiver' \ DOMAIN mapMidTransceiver :
              /\ last'.op \in {"Send", "Receive"}
              /\ last'.result = "ok"
              /\ last'.localId = localId
       /\ last'.op \in {"StopSending", "StopReceiving"} =>
              /\ mapMidTransceiver' = mapMidTransceiver
              /\ (last'.failAt = "lookup") <=>
                     (last'.localId \notin DOMAIN mapMidTransceiver)]_vars

\* C38 witness: a StopSending passed the lookup for a localId that had been
\* stopped before: no section carries its mid any more, because the slot of
\* its closed section was taken by a later Send.
C38_Witness ==
    /\ last.op = "StopSending"
    /\ last.failAt # "lookup"
    /\ last.localId \in DOMAIN mapMidTransceiver
    /\ Cardinality(DOMAIN mapMidTransceiver) = 2
    /\ \A i \in 1..Len(remoteSdp.mediaSections) :
           remoteSdp.mediaSections[i].mid # last.localId

====
